---- MODULE Spec2Model ----
(***************************************************************************)
(* efda-scraper: the capture recorder and role classifier of               *)
(* api_capture.py, the placeholder resolver / replay executor of           *)
(* api_runner.py and the batched product scraper of scrape_products.py.    *)
(***************************************************************************)
EXTENDS Integers, Sequences, FiniteSets, TLC

VARIABLES
    \* one call of _call_endpoint
    ce_pc, ce_endpoint, ce_fields, ce_fetches, ce_result,
    \* capture_api_session
    cap_pc, events_by_key, pending_tasks, gathered, cap_file, cap_seen, cap_budget,
    \* _infer_endpoints
    inf_pc, inf_events, inf_endpoints,
    \* scrape_products
    sp_pc, to_process, batch_start, fetch_state, results, needs_retry, retried_auth,
    headers_token, errors, consecutive_errors, sp_sent, sp_first, sp_counted,
    sp_logins, sp_bad,
    \* run_api_collection_async
    run_pc, run_catalog, max_pages, page_num, run_records, run_status, run_error, run_effects,
    run_fetched, imports_seen, imports_scraped, settings_max_pages, list_results, run_processed,
    products_seen, suppliers_seen, links_seen, run_counts,
    detail_store, last_replace,
    \* _normalize_products, _normalize_suppliers, _build_links
    lk_pc, products_rows, suppliers_rows, lk_products, lk_suppliers, links,
    \* one call of _extract_records
    ex_pc, ex_payload, ex_module, ex_records,
    \* one template built and resolved
    tp_pc, tp_event, tp_role, tp_template, tp_resolved,
    \* one event scored by _score_imports_list
    sc_pc, sc_event, sc_score

ce_vars  == <<ce_pc, ce_endpoint, ce_fields, ce_fetches, ce_result>>
cap_vars == <<cap_pc, events_by_key, pending_tasks, gathered, cap_file, cap_seen, cap_budget>>
inf_vars == <<inf_pc, inf_events, inf_endpoints>>
sp_vars  == <<sp_pc, to_process, batch_start, fetch_state, results, needs_retry, retried_auth,
              headers_token, errors, consecutive_errors, sp_sent, sp_first, sp_counted,
              sp_logins, sp_bad>>
run_vars == <<run_pc, run_catalog, max_pages, page_num, run_records, run_status, run_error,
              run_effects, run_fetched, imports_seen, imports_scraped, settings_max_pages,
              list_results, run_processed, products_seen, suppliers_seen, links_seen,
              run_counts, detail_store, last_replace>>
\* the counters and the stored detail rows, which only the step of one import changes
detail_vars == <<products_seen, suppliers_seen, links_seen, detail_store, last_replace>>
lk_vars == <<lk_pc, products_rows, suppliers_rows, lk_products, lk_suppliers, links>>
ex_vars == <<ex_pc, ex_payload, ex_module, ex_records>>
tp_vars == <<tp_pc, tp_event, tp_role, tp_template, tp_resolved>>
sc_vars == <<sc_pc, sc_event, sc_score>>
vars == <<ce_vars, cap_vars, inf_vars, sp_vars, run_vars, lk_vars, ex_vars, tp_vars, sc_vars>>
\* what an action of one component leaves alone
not_ce  == <<cap_vars, inf_vars, sp_vars, run_vars, lk_vars, ex_vars, tp_vars, sc_vars>>
not_cap == <<ce_vars, inf_vars, sp_vars, run_vars, lk_vars, ex_vars, tp_vars, sc_vars>>
not_inf == <<ce_vars, cap_vars, sp_vars, run_vars, lk_vars, ex_vars, tp_vars, sc_vars>>
not_sp  == <<ce_vars, cap_vars, inf_vars, run_vars, lk_vars, ex_vars, tp_vars, sc_vars>>
not_run == <<ce_vars, cap_vars, inf_vars, sp_vars, lk_vars, ex_vars, tp_vars, sc_vars>>
not_lk  == <<ce_vars, cap_vars, inf_vars, sp_vars, run_vars, ex_vars, tp_vars, sc_vars>>
not_ex  == <<ce_vars, cap_vars, inf_vars, sp_vars, run_vars, lk_vars, tp_vars, sc_vars>>
not_tp  == <<ce_vars, cap_vars, inf_vars, sp_vars, run_vars, lk_vars, ex_vars, sc_vars>>
not_sc  == <<ce_vars, cap_vars, inf_vars, sp_vars, run_vars, lk_vars, ex_vars, tp_vars>>

(***************************************************************************)
(* Python values.  A str is a sequence of lexical units: the two braces,   *)
(* identifier chunks, digit chunks and other characters.  A JSON value is  *)
(* a record: its tag t and, by tag, the str s, the number n, the object o  *)
(* (key -> value) or the list l.                                           *)
(***************************************************************************)
NameUnits == {"page", "page_size", "import_id", "import_reference", "id", "x", "None"}
DigitUnits == {ToString(n) : n \in 0..60}
NameChars == NameUnits \cup DigitUnits

JBase    == [t |-> "null", s |-> <<>>, n |-> 0, o |-> <<>>, l |-> <<>>]
JNull    == JBase
JStr(x)  == [JBase EXCEPT !.t = "str", !.s = x]
JNum(x)  == [JBase EXCEPT !.t = "num", !.n = x]
JObj(f)  == [JBase EXCEPT !.t = "obj", !.o = f]
JList(q) == [JBase EXCEPT !.t = "list", !.l = q]
None == JNull

\* str(value), as str.format applies it to a bound value
PyStr(value) ==
    CASE value.t = "str" -> value.s
      [] value.t = "num" -> <<ToString(value.n)>>
      [] OTHER -> <<"None">>

\* the first brace at or after position i of s (0 when there is none)
RECURSIVE NextBrace(_, _)
NextBrace(s, i) ==
    IF i > Len(s) THEN 0
    ELSE IF s[i] \in {"{", "}"} THEN i
    ELSE NextBrace(s, i + 1)

Failed == [ok |-> FALSE, out |-> <<>>]

\* value.format(**fields) from position i on, out being the text built so far:
\* "{{" and "}}" are escapes, "{name}" is a replacement field, a lone brace or a
\* name that is no key of fields raises
RECURSIVE FormatFrom(_, _, _, _)
FormatFrom(s, i, fields, out) ==
    IF i > Len(s) THEN [ok |-> TRUE, out |-> out]
    ELSE IF s[i] = "{" THEN
        IF i < Len(s) /\ s[i + 1] = "{" THEN FormatFrom(s, i + 2, fields, Append(out, "{"))
        ELSE LET j == NextBrace(s, i + 1) IN
             IF j = 0 \/ s[j] = "{" THEN Failed
             ELSE IF j = i + 2 /\ s[i + 1] \in DOMAIN fields
                  THEN FormatFrom(s, j + 1, fields, out \o PyStr(fields[s[i + 1]]))
                  ELSE Failed
    ELSE IF s[i] = "}" THEN
        IF i < Len(s) /\ s[i + 1] = "}" THEN FormatFrom(s, i + 2, fields, Append(out, "}"))
        ELSE Failed
    ELSE FormatFrom(s, i + 1, fields, Append(out, s[i]))

\* try: return value.format(**fields) / except Exception: return value
format_str(s, fields) ==
    LET r == FormatFrom(s, 1, fields, <<>>) IN IF r.ok THEN r.out ELSE s

RECURSIVE format_recursive(_, _)
format_recursive(value, fields) ==
    CASE value.t = "str"  -> JStr(format_str(value.s, fields))
      [] value.t = "obj"  -> JObj([k \in DOMAIN value.o |-> format_recursive(value.o[k], fields)])
      [] value.t = "list" -> JList([i \in DOMAIN value.l |-> format_recursive(value.l[i], fields)])
      [] OTHER -> value

\* re.search(r"\{[a-zA-Z_][a-zA-Z0-9_]*\}", s)
pattern_search(s) ==
    \E i \in 1..Len(s) : \E j \in (i + 2)..Len(s) :
        /\ s[i] = "{"
        /\ s[j] = "}"
        /\ s[i + 1] \in NameUnits
        /\ \A k \in (i + 1)..(j - 1) : s[k] \in NameChars

RECURSIVE contains_placeholder(_)
contains_placeholder(value) ==
    CASE value.t = "str"  -> pattern_search(value.s)
      [] value.t = "obj"  -> \E k \in DOMAIN value.o : contains_placeholder(value.o[k])
      [] value.t = "list" -> \E i \in DOMAIN value.l : contains_placeholder(value.l[i])
      [] OTHER -> FALSE

(***************************************************************************)
(* _call_endpoint and the HTTP execution context                           *)
(***************************************************************************)
\* what the page answers to a fetch: ok with JSON records, a non-success
\* status, or a success whose body is no JSON
Responses ==
    { [ok |-> TRUE,  status |-> 200, json |-> "records"],
      [ok |-> TRUE,  status |-> 200, json |-> "empty"],
      [ok |-> TRUE,  status |-> 200, json |-> "none"],
      [ok |-> FALSE, status |-> 500, json |-> "none"] }

NoResult == [ok |-> FALSE, status |-> 0, json |-> "None"]

resolve_url(endpoint, fields)    == format_recursive(endpoint.url, fields)
resolve_params(endpoint, fields) == format_recursive(endpoint.params, fields)
resolve_json(endpoint, fields)   == format_recursive(endpoint.json, fields)

\* as unresolved, with the JSON body left unscanned
unresolved_skips_body(endpoint, fields) ==
    \/ contains_placeholder(format_recursive(endpoint.url, fields))
    \/ contains_placeholder(format_recursive(endpoint.params, fields))

\* line 253: any placeholder left in url, params or body
unresolved(endpoint, fields) ==
    \/ contains_placeholder(resolve_url(endpoint, fields))
    \/ contains_placeholder(resolve_params(endpoint, fields))
    \/ contains_placeholder(resolve_json(endpoint, fields))

\* the payload handed to _browser_fetch_json
browser_fetch_json(endpoint, fields) ==
    [url    |-> resolve_url(endpoint, fields),
     method |-> endpoint.method,
     params |-> resolve_params(endpoint, fields),
     json   |-> resolve_json(endpoint, fields)]

\* async def _call_endpoint(page, endpoint, fields)
call_endpoint ==
    /\ ce_pc = "called"
    /\ ce_pc' = "returned"
    /\ IF unresolved(ce_endpoint, ce_fields)
       THEN /\ ce_result' = NoResult
            /\ ce_fetches' = ce_fetches
       ELSE \E response \in Responses :
            /\ ce_fetches' = Append(ce_fetches, browser_fetch_json(ce_endpoint, ce_fields))
            /\ ce_result' = response
    /\ UNCHANGED <<ce_endpoint, ce_fields>>
    /\ UNCHANGED not_ce

\* the templates and bindings a call is tried on
MaxTok == 2
Tokens ==
    { <<"{", "page", "}">>, <<"{", "import_id", "}">>, <<"{", "x", "}">>,
      <<"/">>, <<"x">>, <<"{">>, <<"}">> }
RECURSIVE TokenStrings(_)
TokenStrings(n) ==
    IF n = 0 THEN {<<>>}
    ELSE LET shorter == TokenStrings(n - 1) IN
         shorter \cup {s \o tok : s \in shorter, tok \in Tokens}
TemplateStrings == TokenStrings(MaxTok)

BaseUrl == JStr(<<"/", "x">>)
NoParams == JObj(<<>>)
Shapes(s) ==
    { [method |-> "GET",  url |-> JStr(s), params |-> NoParams, json |-> JNull],
      [method |-> "GET",  url |-> BaseUrl, params |-> JObj([k \in {"q"} |-> JStr(s)]), json |-> JNull],
      [method |-> "POST", url |-> BaseUrl, params |-> NoParams, json |-> JStr(s)],
      [method |-> "POST", url |-> BaseUrl, params |-> NoParams, json |-> JObj([k \in {"k"} |-> JStr(s)])],
      [method |-> "POST", url |-> BaseUrl, params |-> NoParams,
       json |-> JObj([k \in {"k"} |-> JList(<<JNum(1), JObj([m \in {"m"} |-> JStr(s)])>>)])] }
Endpoints == UNION {Shapes(s) : s \in TemplateStrings}

BoundValues ==
    [page : {JNum(2)}, import_id : {JStr(<<"5">>), None, JStr(<<"{", "x", "}">>)}]
Bindings ==
    UNION { {[k \in keys |-> b[k]] : b \in BoundValues} : keys \in SUBSET {"page", "import_id"} }

InitCall ==
    /\ ce_pc = "called"
    /\ ce_endpoint \in Endpoints
    /\ ce_fields \in Bindings
    /\ ce_fetches = <<>>
    /\ ce_result = NoResult
IdleCall ==
    /\ ce_pc = "idle"
    /\ ce_endpoint = [method |-> "GET", url |-> BaseUrl, params |-> NoParams, json |-> JNull]
    /\ ce_fields = <<>>
    /\ ce_fetches = <<>>
    /\ ce_result = NoResult


(***************************************************************************)
(* Capture Recorder: capture_api_session (api_capture.py)                  *)
(***************************************************************************)
\* the keywords the code looks for inside lower-cased text, and which of them
\* each unit of a URL contains once lower-cased
keywords_in(unit) ==
    CASE unit = "api"          -> {"api"}
      [] unit = "ImportPermit" -> {"import", "permit"}
      [] unit = "Products"     -> {"product"}
      [] unit = "Suppliers"    -> {"supplier"}
      [] unit = "Medicine"     -> {"medicine"}
      [] OTHER -> {}
\* token in text.lower()
in_lower(token, text) == \E i \in 1..Len(text) : token \in keywords_in(text[i])

CAPTURE_URL_TOKENS == {"api", "import", "supplier", "product", "permit", "medicine", "eris"}
looks_like_api(url) == \E token \in CAPTURE_URL_TOKENS : in_lower(token, url)

\* key.lower() of a header name
lower(name) ==
    CASE name = "Authorization" -> "authorization"
      [] name = "Cookie"        -> "cookie"
      [] name = "Set-Cookie"    -> "set-cookie"
      [] name = "X-CSRF-Token"  -> "x-csrf-token"
      [] name = "Accept"        -> "accept"
      [] name = "Content-Type"  -> "content-type"
      [] name = "ACCEPT"        -> "accept"
      [] name = "X-Requested-With" -> "x-requested-with"
      [] name = "CSRF-Token"    -> "csrf-token"
      [] OTHER -> name
REDACTED_NAMES == {"authorization", "cookie", "set-cookie", "x-csrf-token"}
\* as redact_headers, comparing the name as it is spelt
redact_headers_exact_case(headers) ==
    [key \in DOMAIN headers |->
        IF key \in REDACTED_NAMES THEN "<redacted>" ELSE headers[key]]

redact_headers(headers) ==
    [key \in DOMAIN headers |->
        IF lower(key) \in REDACTED_NAMES THEN "<redacted>" ELSE headers[key]]

UrlList  == <<"/", "api", "/", "ImportPermit", "/", "List">>
UrlAsset == <<"/", "assets", "/", "logo">>
NoHeaders == [key \in {} |-> ""]
ReqA == [method |-> "GET", url |-> UrlList, resource_type |-> "xhr",
         headers |-> [key \in {"Authorization", "csrf-token", "Accept"} |->
                        CASE key = "Authorization" -> "Bearer abc"
                          [] key = "csrf-token" -> "tok1"
                          [] OTHER -> "application/json"],
         post_data_json |-> JNull]
ReqB == [method |-> "POST", url |-> UrlList, resource_type |-> "fetch",
         headers |-> [key \in {"cookie", "X-CSRF-Token", "content-type"} |->
                        CASE key = "cookie" -> "sid=1"
                          [] key = "X-CSRF-Token" -> "tok2"
                          [] OTHER -> "application/json"],
         post_data_json |-> JObj([k \in {"start"} |-> JNum(0)])]
ReqC == [method |-> "GET", url |-> UrlAsset, resource_type |-> "xhr",
         headers |-> NoHeaders, post_data_json |-> JNull]
ReqD == [method |-> "GET", url |-> UrlList, resource_type |-> "document",
         headers |-> NoHeaders, post_data_json |-> JNull]
Requests == {ReqA, ReqB, ReqC, ReqD}

JsonHeaders == [key \in {"content-type", "set-cookie"} |->
                  IF key = "content-type" THEN "application/json" ELSE "sid=2"]
HtmlHeaders == [key \in {"content-type", "Set-Cookie"} |->
                  IF key = "content-type" THEN "text/html" ELSE "sid=3"]
\* text: what response.text() yields; parses: whether json.loads accepts it
RespA1 == [request |-> ReqA, url |-> UrlList, status |-> 200, headers |-> JsonHeaders,
           text |-> "body1", parses |-> TRUE]
RespA2 == [request |-> ReqA, url |-> UrlList, status |-> 500, headers |-> HtmlHeaders,
           text |-> "body2", parses |-> FALSE]
RespB1 == [request |-> ReqB, url |-> UrlList, status |-> 200, headers |-> JsonHeaders,
           text |-> "body3", parses |-> FALSE]
RespC1 == [request |-> ReqC, url |-> UrlAsset, status |-> 200, headers |-> JsonHeaders,
           text |-> "body4", parses |-> TRUE]
RespD1 == [request |-> ReqD, url |-> UrlList, status |-> 200, headers |-> HtmlHeaders,
           text |-> "body5", parses |-> FALSE]
CapResponses == {RespA1, RespA2, RespB1, RespC1, RespD1}

NoStatus == -1
NoJson == "None"
NoPreview == "None"

\* f"{request.method} {request.url}"
event_key(request) == <<request.method, " ">> \o request.url

\* the record both handlers create on first sighting (lines 337-347, 359-369)
new_event(request) ==
    [method |-> request.method,
     url |-> request.url,
     resource_type |-> request.resource_type,
     request_headers |-> redact_headers(request.headers),
     request_json |-> request.post_data_json,
     status |-> NoStatus,
     response_headers |-> NoHeaders,
     response_json |-> NoJson,
     response_preview |-> NoPreview]

accepted(request, url) == request.resource_type \in {"xhr", "fetch"} /\ looks_like_api(url)

\* as request_upsert, storing a fresh record whether or not the key is known
request_upsert_overwrite(events, request) ==
    [k \in DOMAIN events \cup {event_key(request)} |->
        IF k = event_key(request) THEN new_event(request) ELSE events[k]]

\* events_by_key after on_request(request)
request_upsert(events, request) ==
    LET key == event_key(request) IN
    IF key \in DOMAIN events THEN events
    ELSE [k \in DOMAIN events \cup {key} |-> IF k = key THEN new_event(request) ELSE events[k]]

\* events_by_key after the first segment of on_response (lines 356-372)
response_upsert(events, response) ==
    LET key == event_key(response.request)
        event == IF key \in DOMAIN events THEN events[key] ELSE new_event(response.request)
        merged == [event EXCEPT !.status = response.status,
                                !.response_headers = redact_headers(response.headers)]
    IN [k \in DOMAIN events \cup {key} |-> IF k = key THEN merged ELSE events[k]]

\* _response_json_or_preview: <<response_json, response_preview>>
response_json_or_preview(response, text_raises) ==
    IF text_raises THEN <<NoJson, NoPreview>>
    ELSE IF "content-type" \in DOMAIN response.headers
            /\ response.headers["content-type"] = "application/json"
            /\ response.parses
         THEN <<response.text, response.text>>
         ELSE <<NoJson, response.text>>

\* the request notification and its handler task (lines 329-347, 381)
on_request ==
    /\ cap_pc \in {"capturing", "gathering", "closing"}
    /\ cap_budget > 0
    /\ \E request \in Requests :
        IF accepted(request, request.url)
        THEN /\ events_by_key' = request_upsert(events_by_key, request)
             /\ cap_seen' = cap_seen \cup {<<request.method, request.url, "request">>}
        ELSE UNCHANGED <<events_by_key, cap_seen>>
    /\ cap_budget' = cap_budget - 1
    /\ UNCHANGED <<cap_pc, pending_tasks, gathered, cap_file>>
    /\ UNCHANGED not_cap

\* the response notification and its handler task up to the await of line 373;
\* _track keeps the task in pending_tasks until it is done
on_response ==
    /\ cap_pc \in {"capturing", "gathering", "closing"}
    /\ cap_budget > 0
    /\ \E response \in CapResponses :
        IF accepted(response.request, response.url)
        THEN /\ events_by_key' = response_upsert(events_by_key, response)
             /\ cap_seen' = cap_seen \cup {<<response.request.method, response.request.url, "response">>}
             /\ pending_tasks' = pending_tasks \cup {[id |-> cap_budget, response |-> response]}
        ELSE UNCHANGED <<events_by_key, cap_seen, pending_tasks>>
    /\ cap_budget' = cap_budget - 1
    /\ UNCHANGED <<cap_pc, gathered, cap_file>>
    /\ UNCHANGED not_cap

\* the rest of an on_response task once response.text() returns or raises
\* (lines 373-375), and the done callback of _track
on_response_body ==
    /\ cap_pc # "written"
    /\ \E task \in pending_tasks : \E text_raises \in BOOLEAN :
        LET key == event_key(task.response.request)
            got == response_json_or_preview(task.response, text_raises)
        IN /\ events_by_key' = [events_by_key EXCEPT ![key].response_json = got[1],
                                                     ![key].response_preview = got[2]]
           /\ pending_tasks' = pending_tasks \ {task}
    /\ UNCHANGED <<cap_pc, gathered, cap_file, cap_seen, cap_budget>>
    /\ UNCHANGED not_cap

\* the capture window ends (lines 403-407): gather what is pending now
start_gather ==
    /\ cap_pc = "capturing"
    /\ IF pending_tasks # {}
       THEN cap_pc' = "gathering" /\ gathered' = pending_tasks
       ELSE cap_pc' = "closing" /\ gathered' = {}
    /\ UNCHANGED <<events_by_key, pending_tasks, cap_file, cap_seen, cap_budget>>
    /\ UNCHANGED not_cap

\* asyncio.gather returns once every task it was given is done
end_gather ==
    /\ cap_pc = "gathering"
    /\ gathered \cap pending_tasks = {}
    /\ cap_pc' = "closing"
    /\ UNCHANGED <<events_by_key, pending_tasks, gathered, cap_file, cap_seen, cap_budget>>
    /\ UNCHANGED not_cap

\* sorted(events_by_key.values(), key=url) as the set of events, and len(items)
capture_payload(events) ==
    [count |-> Cardinality(DOMAIN events), items |-> {events[k] : k \in DOMAIN events}]

\* context and browser are closed and the capture file is written (lines 409-418)
write_capture ==
    /\ cap_pc = "closing"
    /\ cap_pc' = "written"
    /\ cap_file' = capture_payload(events_by_key)
    /\ UNCHANGED <<events_by_key, pending_tasks, gathered, cap_seen, cap_budget>>
    /\ UNCHANGED not_cap

MaxNotifications == 3
NoFile == [count |-> 0, items |-> {}]
InitCapture ==
    /\ cap_pc = "capturing"
    /\ events_by_key = <<>>
    /\ pending_tasks = {}
    /\ gathered = {}
    /\ cap_file = NoFile
    /\ cap_seen = {}
    /\ cap_budget = MaxNotifications
IdleCapture ==
    /\ cap_pc = "idle"
    /\ events_by_key = <<>>
    /\ pending_tasks = {}
    /\ gathered = {}
    /\ cap_file = NoFile
    /\ cap_seen = {}
    /\ cap_budget = 0


(***************************************************************************)
(* Record Extractor, Role Classifier and Template Builder (api_capture.py) *)
(***************************************************************************)
PAGE_KEYS == {"page", "pageindex", "pagenumber", "currentpage", "skip", "offset", "start"}
PAGE_SIZE_KEYS == {"pagesize", "size", "limit", "take", "maxresultcount", "length"}
ID_KEYS == {"id", "importid", "requestid", "applicationid", "permitid"}
HEADER_WHITELIST == {"accept", "content-type", "x-requested-with"}
RECORD_KEYS == <<"items", "results", "records", "data", "content", "value">>

\* [item for item in value if isinstance(item, dict)]
RECURSIVE only_dicts(_)
only_dicts(list) ==
    IF list = <<>> THEN <<>>
    ELSE IF Head(list).t = "obj" THEN <<Head(list)>> \o only_dicts(Tail(list))
    ELSE only_dicts(Tail(list))

\* the loop of lines 85-88 from alias number i on
RECURSIVE probe_keys(_, _)
probe_keys(payload, i) ==
    IF i > Len(RECORD_KEYS) THEN <<>>
    ELSE IF RECORD_KEYS[i] \in DOMAIN payload.o /\ payload.o[RECORD_KEYS[i]].t = "list"
         THEN only_dicts(payload.o[RECORD_KEYS[i]].l)
         ELSE probe_keys(payload, i + 1)

extract_records(payload) ==
    CASE payload.t = "list" -> only_dicts(payload.l)
      [] payload.t = "obj"  -> probe_keys(payload, 1)
      [] OTHER -> <<>>

\* urlparse(url).path and .query, as unit sequences
RECURSIVE index_of(_, _, _)
index_of(s, unit, i) ==
    IF i > Len(s) THEN 0 ELSE IF s[i] = unit THEN i ELSE index_of(s, unit, i + 1)
url_path(url) ==
    LET q == index_of(url, "?", 1) IN IF q = 0 THEN url ELSE SubSeq(url, 1, q - 1)
url_query(url) ==
    LET q == index_of(url, "?", 1) IN IF q = 0 THEN <<>> ELSE SubSeq(url, q + 1, Len(url))

\* s.split(sep): the sequence of pieces of s between the separators
RECURSIVE split(_, _)
split(s, sep) ==
    LET i == index_of(s, sep, 1) IN
    IF i = 0 THEN <<s>> ELSE <<SubSeq(s, 1, i - 1)>> \o split(SubSeq(s, i + 1, Len(s)), sep)

\* the key=value pairs of a query string, in order; a pair without a value is blank
query_pairs(query) ==
    IF query = <<>> THEN <<>>
    ELSE LET pieces == split(query, "&") IN
         [i \in 1..Len(pieces) |->
            [key |-> IF Len(pieces[i]) >= 1 THEN pieces[i][1] ELSE "",
             value |-> IF Len(pieces[i]) >= 3 THEN SubSeq(pieces[i], 3, Len(pieces[i])) ELSE <<>>]]
\* parse_qs(query, keep_blank_values=keep): key -> first value
parse_qs(query, keep) ==
    LET pairs == query_pairs(query)
        kept == {i \in 1..Len(pairs) : pairs[i].key # "" /\ (keep \/ pairs[i].value # <<>>)}
        keys == {pairs[i].key : i \in kept}
        first(key) == CHOOSE i \in kept : pairs[i].key = key /\ \A j \in kept : pairs[j].key = key => i <= j
    IN [key \in keys |-> pairs[first(key)].value]

\* key.lower() of a query or JSON key
lower_key(key) ==
    CASE key = "Start"    -> "start"
      [] key = "pageSize" -> "pagesize"
      [] key = "importId" -> "importid"
      [] key = "permitNo" -> "permitno"
      [] key = "importGuid" -> "importguid"
      [] OTHER -> key
\* the keywords a lower-cased key contains
key_keywords(lowered) ==
    CASE lowered = "importid"   -> {"import", "id"}
      [] lowered = "id"         -> {"id"}
      [] lowered = "permitno"   -> {"permit"}
      [] lowered = "permitid"   -> {"permit", "id"}
      [] lowered = "reference"  -> {"reference"}
      [] lowered = "width"      -> {"id"}
      [] lowered = "importguid" -> {"import", "id"}
      [] lowered = "preference" -> {"reference"}
      [] OTHER -> {}

BracedPage == <<"{", "page", "}">>
BracedPageSize == <<"{", "page_size", "}">>
BracedImportId == <<"{", "import_id", "}">>
BracedImportReference == <<"{", "import_reference", "}">>
NoPlaceholder == <<>>

\* as key_placeholder, by membership of the whole key alone
key_placeholder_whole_key(key) ==
    LET lowered == lower_key(key) IN
    IF lowered \in PAGE_KEYS THEN BracedPage
    ELSE IF lowered \in PAGE_SIZE_KEYS THEN BracedPageSize
    ELSE IF lowered \in ID_KEYS THEN BracedImportId
    ELSE NoPlaceholder

key_placeholder(key) ==
    LET lowered == lower_key(key) IN
    IF lowered \in PAGE_KEYS THEN BracedPage
    ELSE IF lowered \in PAGE_SIZE_KEYS THEN BracedPageSize
    ELSE IF lowered \in ID_KEYS \/ {"import", "id"} \subseteq key_keywords(lowered) THEN BracedImportId
    ELSE IF "reference" \in key_keywords(lowered) \/ "permit" \in key_keywords(lowered)
         THEN BracedImportReference
    ELSE NoPlaceholder

\* as template_json_value, the elements of a list walked without a key
RECURSIVE template_json_value_bare_lists(_, _)
template_json_value_bare_lists(value, key_hint) ==
    CASE value.t = "obj"  ->
            JObj([key \in DOMAIN value.o |-> template_json_value_bare_lists(value.o[key], key)])
      [] value.t = "list" ->
            JList([i \in DOMAIN value.l |-> template_json_value_bare_lists(value.l[i], "")])
      [] OTHER -> IF key_hint # "" /\ key_placeholder(key_hint) # NoPlaceholder
                  THEN JStr(key_placeholder(key_hint))
                  ELSE value

RECURSIVE template_json_value(_, _)
template_json_value(value, key_hint) ==
    CASE value.t = "obj"  -> JObj([key \in DOMAIN value.o |-> template_json_value(value.o[key], key)])
      [] value.t = "list" -> JList([i \in DOMAIN value.l |-> template_json_value(value.l[i], key_hint)])
      [] OTHER -> IF key_hint # "" /\ key_placeholder(key_hint) # NoPlaceholder
                  THEN JStr(key_placeholder(key_hint))
                  ELSE value

\* the characters of a unit: of a digit chunk and of the sampled identifiers;
\* every other unit of the model holds a letter that is no hex digit, and
\* counts as one such character
Digits == {"0", "1", "2", "3", "4", "5", "6", "7", "8", "9"}
HexChars == Digits \cup {"a", "b", "c", "d", "e", "f", "A", "B", "C", "D", "E", "F", "-"}
UnitChars(unit) ==
    CASE unit = "3f2a9c0e-1b2d-4e5f-8a9b" ->
            <<"3", "f", "2", "a", "9", "c", "0", "e", "-", "1", "b", "2", "d", "-",
              "4", "e", "5", "f", "-", "8", "a", "9", "b">>
      [] unit = "0123456789abcdeF" ->
            <<"0", "1", "2", "3", "4", "5", "6", "7", "8", "9", "a", "b", "c", "d", "e", "F">>
      [] unit = "0123456789abcde" ->
            <<"0", "1", "2", "3", "4", "5", "6", "7", "8", "9", "a", "b", "c", "d", "e">>
      [] unit = "0123456789abcdeg" ->
            <<"0", "1", "2", "3", "4", "5", "6", "7", "8", "9", "a", "b", "c", "d", "e", "g">>
      [] unit \in DigitUnits ->
            LET n == CHOOSE m \in 0..60 : ToString(m) = unit IN
            IF n < 10 THEN <<unit>> ELSE <<ToString(n \div 10), ToString(n % 10)>>
      [] OTHER -> <<unit>>
RECURSIVE SegmentChars(_)
SegmentChars(segment) ==
    IF segment = <<>> THEN <<>> ELSE UnitChars(Head(segment)) \o SegmentChars(Tail(segment))

\* segment.isdigit()
isdigit(chars) == chars # <<>> /\ \A i \in 1..Len(chars) : chars[i] \in Digits
\* re.fullmatch(r"[0-9a-fA-F-]{16,}", segment)
fullmatch_hex(chars) == Len(chars) >= 16 /\ \A i \in 1..Len(chars) : chars[i] \in HexChars
is_identifier(segment) ==
    isdigit(SegmentChars(segment)) \/ fullmatch_hex(SegmentChars(segment))

\* "/".join(segments)
RECURSIVE join(_)
join(segments) ==
    IF Len(segments) = 0 THEN <<>>
    ELSE IF Len(segments) = 1 THEN segments[1]
    ELSE segments[1] \o <<"/">> \o join(Tail(segments))

\* as path_template, for every role alike
path_template_any_role(path, role) ==
    LET segments == split(path, "/") IN
    join([i \in 1..Len(segments) |->
            IF segments[i] # <<>> /\ is_identifier(segments[i])
            THEN BracedImportId ELSE segments[i]])

path_template(path, role) ==
    LET segments == split(path, "/") IN
    join([i \in 1..Len(segments) |->
            IF segments[i] # <<>> /\ role # "imports_list" /\ is_identifier(segments[i])
            THEN BracedImportId ELSE segments[i]])

\* as headers_template, keeping every header with a value
headers_template_any_name(request_headers) ==
    LET kept == {key \in DOMAIN request_headers : request_headers[key] \notin {"", "<redacted>"}}
    IN [key \in kept |-> request_headers[key]]

\* lines 161-166
headers_template(request_headers) ==
    LET kept == {key \in DOMAIN request_headers :
                    /\ lower(key) \in HEADER_WHITELIST
                    /\ request_headers[key] \notin {"", "<redacted>"}}
    IN [key \in kept |-> request_headers[key]]

template_from_event(event, role) ==
    LET query == parse_qs(url_query(event.url), TRUE) IN
    [method  |-> event.method,
     url     |-> JStr(path_template(url_path(event.url), role)),
     params  |-> JObj([key \in DOMAIN query |->
                    JStr(IF key_placeholder(key) # NoPlaceholder
                         THEN key_placeholder(key) ELSE query[key])]),
     json    |-> IF event.request_json = JNull THEN JNull
                 ELSE template_json_value(event.request_json, ""),
     headers |-> headers_template(event.request_headers),
     sample_url    |-> event.url,
     sample_status |-> event.status]

\* whether some key of the first record contains one of the words
first_record_has(records, words) ==
    \E key \in DOMAIN records[1].o : key_keywords(lower_key(key)) \cap words # {}

score_imports_list(event) ==
    LET records == extract_records(event.response_json)
        query_keys == {lower_key(key) : key \in DOMAIN parse_qs(url_query(event.url), FALSE)}
    IN (IF records # <<>> THEN 50 ELSE 0)
     + (IF in_lower("import", event.url) THEN 25 ELSE 0)
     - (IF in_lower("product", event.url) \/ in_lower("supplier", event.url) THEN 25 ELSE 0)
     + (IF event.method \in {"GET", "POST"} THEN 5 ELSE 0)
     + (IF query_keys \cap PAGE_KEYS # {} THEN 10 ELSE 0)
     + (IF query_keys \cap PAGE_SIZE_KEYS # {} THEN 10 ELSE 0)
     + (IF records # <<>> /\ first_record_has(records, {"id"}) THEN 8 ELSE 0)
     + (IF records # <<>> /\ first_record_has(records, {"reference", "permit"}) THEN 8 ELSE 0)

score_role(event, role) ==
    LET records == extract_records(event.response_json)
        has(word) == in_lower(word, event.url)
    IN (CASE role = "import_products" ->
               (IF has("product") THEN 40 ELSE 0) + (IF has("import") THEN 10 ELSE 0)
             - (IF has("supplier") THEN 10 ELSE 0) + (IF records # <<>> THEN 30 ELSE 0)
          [] role = "import_suppliers" ->
               (IF has("supplier") THEN 40 ELSE 0) + (IF has("import") THEN 10 ELSE 0)
             - (IF has("product") THEN 10 ELSE 0) + (IF records # <<>> THEN 30 ELSE 0)
          [] role = "import_detail" ->
               (IF has("import") THEN 25 ELSE 0)
             + (IF event.response_json.t = "obj" THEN 25 ELSE 0)
             - (IF records # <<>> THEN 15 ELSE 0)
          [] OTHER -> 0)
     + (IF event.method \in {"GET", "POST"} THEN 5 ELSE 0)

\* as is_successful, without the status test
is_successful_any_status(event) ==
    /\ event.response_json # JNull
    /\ looks_like_api(event.url)

\* lines 247-254
is_successful(event) ==
    /\ event.status # NoStatus
    /\ event.status < 400
    /\ event.response_json # JNull
    /\ looks_like_api(event.url)
RECURSIVE filter_successful(_)
filter_successful(events) ==
    IF events = <<>> THEN <<>>
    ELSE IF is_successful(Head(events)) THEN <<Head(events)>> \o filter_successful(Tail(events))
    ELSE filter_successful(Tail(events))

\* the key the events are ranked by for a role (lines 259, 265)
score_of(event, role) ==
    IF role = "imports_list" THEN score_imports_list(event) ELSE score_role(event, role)

\* as best_index, taking the first event whatever its score
first_index(successful, role) == 1

\* max(successful, key=score): the first event of the highest score; the head
\* of sorted(successful, key=score, reverse=True) is the same event
best_index(successful, role) ==
    CHOOSE i \in 1..Len(successful) :
        /\ \A j \in 1..Len(successful) :
              score_of(successful[j], role) <= score_of(successful[i], role)
        /\ \A j \in 1..(i - 1) : score_of(successful[j], role) < score_of(successful[i], role)

ROLE_THRESHOLD == 20
SECONDARY_ROLES == {"import_detail", "import_products", "import_suppliers"}
\* as role_accepted, with no minimum score
role_accepted_any_score(best, role) == TRUE

\* line 269: the role is skipped when its best score is below the threshold
role_accepted(best, role) == ~(score_role(best, role) < ROLE_THRESHOLD)

\* str(first[key]) of the first key of the list that first has with a value
RECURSIVE first_value(_, _, _)
first_value(first, keys, i) ==
    IF i > Len(keys) THEN "None"
    ELSE IF keys[i] \in DOMAIN first.o /\ first.o[keys[i]] # JNull /\ first.o[keys[i]] # JStr(<<>>)
         THEN PyStr(first.o[keys[i]])
         ELSE first_value(first, keys, i + 1)
SAMPLE_ID_KEYS == <<"id", "importId", "import_id", "requestId", "applicationId">>
REFERENCE_KEYS == <<"reference", "referenceNo", "referenceNumber", "permitNo", "permitNumber">>
first_record_identifiers(payload) ==
    LET records == extract_records(payload) IN
    IF records = <<>> THEN [import_id |-> "None", import_reference |-> "None"]
    ELSE [import_id |-> first_value(records[1], SAMPLE_ID_KEYS, 1),
          import_reference |-> first_value(records[1], REFERENCE_KEYS, 1)]

\* the catalog: the role templates, then sample_fields and captured_event_count
infer_endpoints(events) ==
    LET successful == filter_successful(events) IN
    IF successful = <<>> THEN <<>>
    ELSE LET imports_list == successful[best_index(successful, "imports_list")]
             best(role) == successful[best_index(successful, role)]
             roles == {"imports_list"} \cup {role \in SECONDARY_ROLES : role_accepted(best(role), role)}
         IN [key \in roles \cup {"sample_fields", "captured_event_count"} |->
                CASE key = "imports_list" -> template_from_event(imports_list, "imports_list")
                  [] key = "sample_fields" ->
                        [page |-> 1, page_size |-> 50,
                         import_id |-> first_record_identifiers(imports_list.response_json).import_id,
                         import_reference |->
                            first_record_identifiers(imports_list.response_json).import_reference]
                  [] key = "captured_event_count" -> Len(events)
                  [] OTHER -> template_from_event(best(key), key)]

infer ==
    /\ inf_pc = "captured"
    /\ inf_pc' = "inferred"
    /\ inf_endpoints' = infer_endpoints(inf_events)
    /\ UNCHANGED inf_events
    /\ UNCHANGED not_inf

\* the captured events an inference is tried on
RecordsOf(name) == JList(<<JObj([k \in {"name"} |-> JStr(<<name>>)])>>)
ListBody ==
    JObj([k \in {"recordsTotal", "data"} |->
            IF k = "data" THEN JList(<<JObj([m \in {"id"} |-> JNum(1)])>>) ELSE JNum(2)])
Captured(method, url, status, response_json) ==
    [method |-> method, url |-> url, status |-> status, response_json |-> response_json,
     request_json |-> JNull,
     request_headers |-> [key \in {"Accept", "Authorization"} |->
                            IF key = "Accept" THEN "application/json" ELSE "<redacted>"]]
EvList == Captured("GET", UrlList \o <<"?", "start", "=", "0", "&", "length", "=", "10">>, 200, ListBody)
EvProducts == Captured("GET", <<"/", "api", "/", "ImportPermit", "/", "5", "/", "Products">>, 200, RecordsOf("X"))
EvSuppliers == Captured("GET", <<"/", "api", "/", "ImportPermit", "/", "5", "/", "Suppliers">>, 200, RecordsOf("Y"))
EvPut == Captured("PUT", <<"/", "api", "/", "Suppliers", "/", "5">>, 200, RecordsOf("Y"))
EvNotFound == Captured("GET", <<"/", "api", "/", "ImportPermit", "/", "7">>, 404,
                       JObj([k \in {"message"} |-> JStr(<<"x">>)]))
EvAsset == Captured("GET", UrlAsset, 200, RecordsOf("X"))
EvNoResponse == Captured("POST", UrlList, NoStatus, JNull)
EvNoJson == Captured("GET", <<"/", "api", "/", "Medicine", "/", "9">>, 200, JNull)
EvDelete == Captured("DELETE", <<"/", "api", "/", "Medicine", "/", "9">>, 200,
                     JObj([k \in {"ok"} |-> JNum(1)]))
EventPool == {EvList, EvProducts, EvSuppliers, EvPut, EvNotFound, EvAsset, EvNoResponse,
              EvNoJson, EvDelete}
MaxEvents == 2
RECURSIVE EventLists(_)
EventLists(n) ==
    IF n = 0 THEN {<<>>}
    ELSE LET shorter == EventLists(n - 1) IN
         shorter \cup {Append(list, event) : list \in shorter, event \in EventPool}

\* the capture of three events: the list, the products and the suppliers of
\* import 5, in any order of arrival
EvBareList == Captured("GET", UrlList, 200, ListBody)
ScenarioEvents == {EvBareList, EvProducts, EvSuppliers}
ScenarioLists ==
    {list \in [1..3 -> ScenarioEvents] : Cardinality({list[i] : i \in 1..3}) = 3}

InitInfer ==
    /\ inf_pc = "captured"
    /\ inf_events \in EventLists(MaxEvents) \cup ScenarioLists
    /\ inf_endpoints = <<>>
IdleInfer ==
    /\ inf_pc = "idle"
    /\ inf_events = <<>>
    /\ inf_endpoints = <<>>


(***************************************************************************)
(* scrape_products (scripts/scrape_products.py), from step 4 on.  Imports  *)
(* are numbered 1..Len(to_process).  sp_sent, sp_first, sp_counted,        *)
(* sp_logins and sp_bad record the history of the run: the tokens each     *)
(* import was fetched with, the status of its first fetch, whether it was  *)
(* counted as an error, the logins of the current batch and the number of  *)
(* failed answers so far.                                                  *)
(***************************************************************************)
CONCURRENCY_PRODUCTS == 10
max_consecutive_errors == 5
\* the statuses a fetch ends with: 200 with details, 401, and 500 for every
\* other failure (another status, no connection, a body that is no JSON)
Statuses == {200, 401, 500}
MaxImports == 11
MaxBad == 2

Ids == 1..Len(to_process)
\* as batch_slice, one import wider
batch_slice_wider(start) ==
    {i \in Ids : start < i /\ i <= start + CONCURRENCY_PRODUCTS + 1}

\* to_process[batch_start:batch_start + CONCURRENCY_PRODUCTS]
batch_slice(start) == {i \in Ids : start < i /\ i <= start + CONCURRENCY_PRODUCTS}
in_flight == {i \in Ids : fetch_state[i] = "flight"}
waiting == {i \in Ids : fetch_state[i] = "waiting"}

\* asyncio.Semaphore(CONCURRENCY_PRODUCTS): of the tasks that ask, in order, those
\* that find a free permit go in flight and the others wait
semaphore_value == CONCURRENCY_PRODUCTS
acquire(state, asking) ==
    LET free == semaphore_value - Cardinality({i \in Ids : state[i] = "flight"})
        admitted == {i \in asking : Cardinality({j \in asking : j < i}) < free}
    IN [i \in Ids |-> IF i \in admitted THEN "flight"
                      ELSE IF i \in asking THEN "waiting" ELSE state[i]]

\* as gather_done, returning without waiting for the tasks
gather_done_at_once(ids) == TRUE

\* await asyncio.gather(*tasks) returns once every task is done
gather_done(ids) == \A i \in ids : fetch_state[i] = "done"

\* the outcomes the server may give the fetches of ids, within the bound on failures
Outcomes(ids) ==
    {f \in [ids -> Statuses] : sp_bad + Cardinality({i \in ids : f[i] # 200}) <= MaxBad}

\* lines 427-447: the errors counted, in result order, until batch_stop
RECURSIVE process_results(_, _, _, _)
process_results(order, res, acc, i) ==
    IF i > Len(order) THEN acc
    ELSE IF res[order[i]] # 200
         THEN LET next == [acc EXCEPT !.consecutive = @ + 1, !.errors = @ + 1,
                                      !.counted = @ \cup {order[i]}]
              IN IF next.consecutive >= max_consecutive_errors
                 THEN [next EXCEPT !.stop = TRUE]
                 ELSE process_results(order, res, next, i + 1)
         ELSE process_results(order, res, [acc EXCEPT !.consecutive = 0], i + 1)

\* the ids of a set in increasing order
RECURSIVE in_order(_)
in_order(ids) ==
    IF ids = {} THEN <<>>
    ELSE LET low == CHOOSE i \in ids : \A j \in ids : i <= j
         IN <<low>> \o in_order(ids \ {low})

\* the end of a batch (lines 426-458) with the results res of the batch
finish_batch(res) ==
    LET done == process_results(in_order(batch_slice(batch_start)), res,
                    [consecutive |-> consecutive_errors, errors |-> errors,
                     counted |-> {}, stop |-> FALSE], 1)
    IN /\ errors' = done.errors
       /\ consecutive_errors' = done.consecutive
       /\ sp_counted' = sp_counted \cup done.counted
       /\ results' = [i \in Ids |-> 0]
       /\ needs_retry' = {}
       /\ fetch_state' = [i \in Ids |-> "idle"]
       /\ IF done.stop \/ batch_start + CONCURRENCY_PRODUCTS >= Len(to_process)
          THEN sp_pc' = "done" /\ batch_start' = batch_start
          ELSE sp_pc' = "batch" /\ batch_start' = batch_start + CONCURRENCY_PRODUCTS

\* lines 394-401: the tasks of the batch are created and gathered
start_batch ==
    /\ sp_pc = "batch"
    /\ sp_pc' = "gather"
    /\ fetch_state' = acquire(fetch_state, batch_slice(batch_start))
    /\ sp_sent' = [i \in Ids |-> IF fetch_state'[i] = "flight"
                                 THEN Append(sp_sent[i], headers_token) ELSE sp_sent[i]]
    /\ sp_logins' = 0
    /\ UNCHANGED <<to_process, batch_start, results, needs_retry, retried_auth, headers_token,
                   errors, consecutive_errors, sp_first, sp_counted, sp_bad>>
    /\ UNCHANGED not_sp

\* one fetch_import_products ends and releases the semaphore; the first waiting
\* task, if any, gets the permit
fetch_done ==
    /\ sp_pc \in {"gather", "retry", "login", "batch"}
    /\ \E i \in in_flight :
        LET released == [fetch_state EXCEPT ![i] = "done"]
            head == {j \in waiting : \A k \in waiting : j <= k}
        IN /\ fetch_state' = acquire(released, head)
           /\ sp_sent' = [j \in Ids |-> IF j \in head
                                        THEN Append(sp_sent[j], headers_token) ELSE sp_sent[j]]
    /\ UNCHANGED <<sp_pc, to_process, batch_start, results, needs_retry, retried_auth,
                   headers_token, errors, consecutive_errors, sp_first, sp_counted, sp_logins,
                   sp_bad>>
    /\ UNCHANGED not_sp

\* lines 401-413: gather returns the results of the batch; with a 401 and no
\* earlier refresh the fresh login starts, else the batch is finished
gather_returns ==
    /\ sp_pc = "gather"
    /\ gather_done(batch_slice(batch_start))
    /\ \E outcome \in Outcomes(batch_slice(batch_start)) :
        LET res == [i \in Ids |-> IF i \in batch_slice(batch_start) THEN outcome[i] ELSE 0]
            retry == {i \in batch_slice(batch_start) : res[i] = 401}
        IN /\ sp_bad' = sp_bad + Cardinality({i \in batch_slice(batch_start) : res[i] # 200})
           /\ sp_first' = [i \in Ids |-> IF i \in batch_slice(batch_start) THEN res[i] ELSE sp_first[i]]
           /\ IF retry # {} /\ ~retried_auth
              THEN /\ sp_pc' = "login"
                   /\ results' = res
                   /\ needs_retry' = retry
                   /\ UNCHANGED <<batch_start, fetch_state, errors, consecutive_errors, sp_counted>>
              ELSE finish_batch(res)
    /\ UNCHANGED <<to_process, retried_auth, headers_token, sp_sent, sp_logins>>
    /\ UNCHANGED not_sp

\* lines 411-418: _login_for_token returns, the Authorization header is replaced
\* and the retry tasks are created and gathered
login_returns ==
    /\ sp_pc = "login"
    /\ sp_pc' = "retry"
    /\ headers_token' = headers_token + 1
    /\ retried_auth' = TRUE
    /\ sp_logins' = sp_logins + 1
    /\ fetch_state' = acquire(fetch_state, needs_retry)
    /\ sp_sent' = [i \in Ids |-> IF fetch_state'[i] = "flight" /\ i \in needs_retry
                                 THEN Append(sp_sent[i], headers_token') ELSE sp_sent[i]]
    /\ UNCHANGED <<to_process, batch_start, results, needs_retry, errors, consecutive_errors,
                   sp_first, sp_counted, sp_bad>>
    /\ UNCHANGED not_sp

\* _login_for_token raises (no token captured): the exception ends the run
login_raises ==
    /\ sp_pc = "login"
    /\ sp_pc' = "raised"
    /\ sp_logins' = sp_logins + 1
    /\ UNCHANGED <<to_process, batch_start, fetch_state, results, needs_retry, retried_auth,
                   headers_token, errors, consecutive_errors, sp_sent, sp_first, sp_counted,
                   sp_bad>>
    /\ UNCHANGED not_sp

\* lines 418-458: the retry results replace the 401 results and the batch is finished
retry_returns ==
    /\ sp_pc = "retry"
    /\ gather_done(needs_retry)
    /\ \E outcome \in Outcomes(needs_retry) :
        /\ sp_bad' = sp_bad + Cardinality({i \in needs_retry : outcome[i] # 200})
        /\ finish_batch([i \in Ids |-> IF i \in needs_retry THEN outcome[i] ELSE results[i]])
    /\ UNCHANGED <<to_process, retried_auth, headers_token, sp_sent, sp_first, sp_logins>>
    /\ UNCHANGED not_sp

InitScrape ==
    /\ \E n \in 1..MaxImports : to_process = [i \in 1..n |-> i]
    /\ sp_pc = "batch"
    /\ batch_start = 0
    /\ fetch_state = [i \in Ids |-> "idle"]
    /\ results = [i \in Ids |-> 0]
    /\ needs_retry = {}
    /\ retried_auth = FALSE
    /\ headers_token = 1
    /\ errors = 0
    /\ consecutive_errors = 0
    /\ sp_sent = [i \in Ids |-> <<>>]
    /\ sp_first = [i \in Ids |-> 0]
    /\ sp_counted = {}
    /\ sp_logins = 0
    /\ sp_bad = 0
IdleScrape ==
    /\ to_process = <<>>
    /\ sp_pc = "idle"
    /\ batch_start = 0
    /\ fetch_state = <<>>
    /\ results = <<>>
    /\ needs_retry = {}
    /\ retried_auth = FALSE
    /\ headers_token = 1
    /\ errors = 0
    /\ consecutive_errors = 0
    /\ sp_sent = <<>>
    /\ sp_first = <<>>
    /\ sp_counted = {}
    /\ sp_logins = 0
    /\ sp_bad = 0

(***************************************************************************)
(* Linkage: _normalize_products, _normalize_suppliers and _build_links     *)
(* (api_runner.py).  A row is a dict in insertion order: a sequence of     *)
(* [key, value] pairs.  A text is a sequence of units, " " being white     *)
(* space.  A name is JNull (None) or JStr(text).                           *)
(***************************************************************************)
\* str(key).lower() of a row key
lower_row_key(key) ==
    CASE key = "productName"  -> "productname"
      [] key = "supplierName" -> "suppliername"
      [] key = "SupplierName" -> "suppliername"
      [] key = "Manufacturer" -> "manufacturer"
      [] OTHER -> key
\* the tokens of the normalizers a lower-cased row key contains
row_key_tokens(lowered) ==
    CASE lowered = "productname"  -> {"product", "name"}
      [] lowered = "suppliername" -> {"supplier", "name"}
      [] lowered = "manufacturer" -> {"manufacturer"}
      [] lowered = "supplier"     -> {"supplier"}
      [] lowered = "vendor"       -> {"vendor"}
      [] lowered = "company"      -> {"company"}
      [] lowered = "name"         -> {"name"}
      [] lowered = "item"         -> {"item"}
      [] OTHER -> {}

\* text.strip()
RECURSIVE lstrip(_)
lstrip(text) == IF text # <<>> /\ Head(text) = " " THEN lstrip(Tail(text)) ELSE text
RECURSIVE rstrip(_)
rstrip(text) ==
    IF text # <<>> /\ text[Len(text)] = " " THEN rstrip(SubSeq(text, 1, Len(text) - 1)) ELSE text
strip(text) == rstrip(lstrip(text))

\* {str(key).lower(): value for key, value in row.items()}: a key seen again
\* keeps its place and takes the later value
RECURSIVE lowered_items(_, _)
lowered_items(row, acc) ==
    IF row = <<>> THEN acc
    ELSE LET key == lower_row_key(Head(row).key)
             at == {i \in 1..Len(acc) : acc[i].key = key}
         IN lowered_items(Tail(row),
                IF at = {} THEN Append(acc, [key |-> key, value |-> Head(row).value])
                ELSE [i \in 1..Len(acc) |-> IF i \in at THEN [acc[i] EXCEPT !.value = Head(row).value]
                                           ELSE acc[i]])

\* _value_for_keys(row, key_tokens)
RECURSIVE first_text(_, _, _)
first_text(items, key_tokens, i) ==
    IF i > Len(items) THEN JNull
    ELSE IF row_key_tokens(items[i].key) \cap key_tokens # {}
            /\ strip(PyStr(items[i].value)) # <<>>
         THEN JStr(strip(PyStr(items[i].value)))
         ELSE first_text(items, key_tokens, i + 1)
value_for_keys(row, key_tokens) == first_text(lowered_items(row, <<>>), key_tokens, 1)

PRODUCT_NAME_TOKENS == {"product", "item", "medicine", "drug", "description", "name"}
PRODUCT_SUPPLIER_TOKENS == {"supplier", "manufacturer", "vendor"}
SUPPLIER_NAME_TOKENS == {"supplier", "manufacturer", "vendor", "name", "company"}

normalize_products(rows) ==
    [i \in 1..Len(rows) |->
        [product_name |-> value_for_keys(rows[i], PRODUCT_NAME_TOKENS),
         supplier_name |-> value_for_keys(rows[i], PRODUCT_SUPPLIER_TOKENS),
         raw |-> rows[i]]]

\* lines 66-70: the first value of the row whose text is not blank
RECURSIVE first_value_text(_, _)
first_value_text(row, i) ==
    IF i > Len(row) THEN JNull
    ELSE IF strip(PyStr(row[i].value)) # <<>> THEN JStr(strip(PyStr(row[i].value)))
    ELSE first_value_text(row, i + 1)

normalize_suppliers(rows) ==
    [i \in 1..Len(rows) |->
        [supplier_name |->
            IF value_for_keys(rows[i], SUPPLIER_NAME_TOKENS) # JNull
            THEN value_for_keys(rows[i], SUPPLIER_NAME_TOKENS)
            ELSE first_value_text(rows[i], 1),
         raw |-> rows[i]]]

\* bool(name) of a name
truthy(name) == name # JNull /\ name # JStr(<<>>)

\* as distinct_names, keeping the repeated names
keep_repeated_names(names) == names

\* list(dict.fromkeys(names)): the first occurrence of every name, in order
RECURSIVE distinct_names(_)
distinct_names(names) ==
    IF names = <<>> THEN <<>>
    ELSE LET shorter == distinct_names(SubSeq(names, 1, Len(names) - 1))
             last == names[Len(names)]
         IN IF \E i \in 1..Len(shorter) : shorter[i] = last THEN shorter ELSE Append(shorter, last)

\* lines 81-82: the stripped, non-empty, distinct supplier names
supplier_names_of(suppliers) ==
    LET named == SelectSeq(suppliers, LAMBDA item : truthy(item.supplier_name))
        stripped == [i \in 1..Len(named) |-> strip(PyStr(named[i].supplier_name))]
    IN distinct_names(SelectSeq(stripped, LAMBDA name : name # <<>>))

link_of(product_name, supplier_name, confidence, source) ==
    [product_name |-> product_name, supplier_name |-> supplier_name,
     confidence |-> confidence, source |-> source]

build_links(products, suppliers) ==
    LET supplier_names == supplier_names_of(suppliers) IN
    [i \in 1..Len(products) |->
        IF truthy(products[i].supplier_name)
        THEN link_of(products[i].product_name, products[i].supplier_name, "high", "product_row")
        ELSE IF Len(supplier_names) = 1
        THEN link_of(products[i].product_name, JStr(supplier_names[1]), "medium",
                     "single_supplier_in_import")
        ELSE link_of(products[i].product_name, JNull, "low", "unresolved")]

\* run_api_collection_async, lines 389-391
link_import ==
    /\ lk_pc = "rows"
    /\ lk_pc' = "linked"
    /\ lk_products' = normalize_products(products_rows)
    /\ lk_suppliers' = normalize_suppliers(suppliers_rows)
    /\ links' = build_links(normalize_products(products_rows), normalize_suppliers(suppliers_rows))
    /\ UNCHANGED <<products_rows, suppliers_rows>>
    /\ UNCHANGED not_lk

\* the raw rows a linkage is tried on
Pair(key, value) == [key |-> key, value |-> value]
ProductRowPool ==
    { <<Pair("productName", JStr(<<"X">>)), Pair("supplierName", JStr(<<"A">>))>>,
      <<Pair("productName", JStr(<<"Y">>))>>,
      <<Pair("item", JStr(<<"Z">>)), Pair("supplier", JNull)>>,
      <<Pair("name", JStr(<<"W">>)), Pair("vendor", JStr(<<" ">>)), Pair("Manufacturer", JStr(<<>>))>> }
SupplierRowPool ==
    { <<Pair("name", JStr(<<"A">>))>>,
      <<Pair("SupplierName", JStr(<<" ", "B">>))>>,
      <<Pair("company", JStr(<<"A", " ">>)), Pair("qty", JNum(7))>>,
      <<Pair("name", JStr(<<>>))>>,
      <<Pair("qty", JNum(7))>> }
MaxRows == 2
RECURSIVE RowLists(_, _)
RowLists(pool, n) ==
    IF n = 0 THEN {<<>>}
    ELSE LET shorter == RowLists(pool, n - 1) IN
         shorter \cup {Append(rows, row) : rows \in shorter, row \in pool}

InitLinks ==
    /\ lk_pc = "rows"
    /\ products_rows \in RowLists(ProductRowPool, MaxRows)
    /\ suppliers_rows \in RowLists(SupplierRowPool, MaxRows)
    /\ lk_products = <<>>
    /\ lk_suppliers = <<>>
    /\ links = <<>>
IdleLinks ==
    /\ lk_pc = "idle"
    /\ products_rows = <<>>
    /\ suppliers_rows = <<>>
    /\ lk_products = <<>>
    /\ lk_suppliers = <<>>
    /\ links = <<>>

(***************************************************************************)
(* _extract_records, as api_capture.py and api_runner.py each define it    *)
(***************************************************************************)
\* api_runner.py, lines 25-33
RECURSIVE runner_probe_keys(_, _)
runner_probe_keys(payload, i) ==
    IF i > Len(RECORD_KEYS) THEN <<>>
    ELSE IF RECORD_KEYS[i] \in DOMAIN payload.o /\ payload.o[RECORD_KEYS[i]].t = "list"
         THEN only_dicts(payload.o[RECORD_KEYS[i]].l)
         ELSE runner_probe_keys(payload, i + 1)
runner_extract_records(payload) ==
    CASE payload.t = "list" -> only_dicts(payload.l)
      [] payload.t = "obj"  -> runner_probe_keys(payload, 1)
      [] OTHER -> <<>>

capture_extracts ==
    /\ ex_pc = "payload"
    /\ ex_pc' = "returned"
    /\ ex_module' = "api_capture"
    /\ ex_records' = extract_records(ex_payload)
    /\ UNCHANGED ex_payload
    /\ UNCHANGED not_ex

runner_extracts ==
    /\ ex_pc = "payload"
    /\ ex_pc' = "returned"
    /\ ex_module' = "api_runner"
    /\ ex_records' = runner_extract_records(ex_payload)
    /\ UNCHANGED ex_payload
    /\ UNCHANGED not_ex

\* the payloads _extract_records is tried on
RecordA == JObj([k \in {"a"} |-> JNum(1)])
RecordB == JObj([k \in {"b"} |-> JNum(2)])
ListValues ==
    { JList(<<>>), JList(<<RecordA>>), JList(<<RecordA, RecordB>>),
      JList(<<JNum(1), JNum(2)>>), JList(<<JNum(1), RecordA>>) }
OtherValues == { JNull, JNum(1), JStr(<<"x">>), RecordA }
ObjectPayloads ==
    { JObj([k \in {"foo"} |-> JNum(1)]) } \cup
    { JObj([k \in {"data"} |-> v]) : v \in ListValues \cup OtherValues } \cup
    { JObj([k \in {first, second} |-> IF k = first THEN v ELSE w]) :
        first \in {"items", "foo"}, second \in {"data", "value"},
        v \in ListValues \cup {JNum(1)}, w \in ListValues }
Payloads == ListValues \cup OtherValues \cup ObjectPayloads

InitExtract ==
    /\ ex_pc = "payload"
    /\ ex_payload \in Payloads
    /\ ex_module = "none"
    /\ ex_records = <<>>
IdleExtract ==
    /\ ex_pc = "idle"
    /\ ex_payload = JNull
    /\ ex_module = "none"
    /\ ex_records = <<>>

(***************************************************************************)
(* Replay Runner: run_api_collection_async (api_runner.py).  run_effects   *)
(* is the set of outside effects the run has had so far and run_fetched    *)
(* the set of requests handed to the HTTP execution context.               *)
(***************************************************************************)
\* as load_endpoints, without the test for the imports_list key
load_endpoints_any_keys(catalog) ==
    IF ~catalog.exists THEN "FileNotFoundError" ELSE "loaded"

\* _load_endpoints: the exception it raises, or "loaded"
load_endpoints(catalog) ==
    IF ~catalog.exists THEN "FileNotFoundError"
    ELSE IF "imports_list" \notin DOMAIN catalog.endpoints THEN "ValueError"
    ELSE "loaded"

IMPORT_ID_FIELDS == <<"id", "importId", "import_id", "requestId", "applicationId", "permitId">>
IMPORT_REFERENCE_FIELDS ==
    <<"reference", "referenceNo", "referenceNumber", "permitNo", "permitNumber">>

\* raw.get(key) for the first key whose value is neither None nor "", as str
RECURSIVE first_field(_, _, _)
first_field(raw, keys, i) ==
    IF i > Len(keys) THEN None
    ELSE IF keys[i] \in DOMAIN raw.o /\ raw.o[keys[i]] # JNull /\ raw.o[keys[i]] # JStr(<<>>)
         THEN JStr(PyStr(raw.o[keys[i]]))
         ELSE first_field(raw, keys, i + 1)

\* "/IP" in str(value).upper(), for the str and number values of a record
has_ip_marker(value) ==
    LET text == PyStr(value)
    IN value.t \in {"str", "num"}
       /\ \E i \in 1..(Len(text) - 1) : text[i] = "/" /\ text[i + 1] \in {"IP7", "ip7"}

\* _import_identity(raw): <<import_id, import_reference>>
import_identity(raw) ==
    LET import_id == first_field(raw, IMPORT_ID_FIELDS, 1)
        named == first_field(raw, IMPORT_REFERENCE_FIELDS, 1)
        marked == {k \in DOMAIN raw.o : has_ip_marker(raw.o[k])}
    IN <<import_id,
         IF named # None THEN named
         ELSE IF marked # {} THEN JStr(PyStr(raw.o[CHOOSE k \in marked : TRUE]))
         ELSE None>>

PAGE_SIZE == 100
list_fields(page) ==
    [k \in {"page", "page_size"} |-> IF k = "page" THEN JNum(page) ELSE JNum(PAGE_SIZE)]
import_fields(page, raw) ==
    [k \in {"page", "page_size", "import_id", "id", "import_reference"} |->
        CASE k = "page" -> JNum(page)
          [] k = "page_size" -> JNum(PAGE_SIZE)
          [] k = "import_reference" -> import_identity(raw)[2]
          [] OTHER -> import_identity(raw)[1]]

\* import_reference or import_id or f"page{page_num}-idx{imports_seen}"
import_reference_key(page, seen, raw) ==
    LET identity == import_identity(raw)
    IN IF identity[2] # None /\ identity[2] # JStr(<<>>) THEN identity[2].s
       ELSE IF identity[1] # None /\ identity[1] # JStr(<<>>) THEN identity[1].s
       ELSE <<"page", ToString(page), "-", "idx", ToString(seen)>>

\* the request a call of a role hands to _browser_fetch_json
request_of(role, endpoint, fields) ==
    [role |-> role, request |-> browser_fetch_json(endpoint, fields)]

\* lines 272-288: the catalog is loaded, then the store is opened and the run started
run_begin ==
    /\ run_pc = "called"
    /\ IF load_endpoints(run_catalog) # "loaded"
       THEN /\ run_pc' = "raised"
            /\ run_error' = load_endpoints(run_catalog)
            /\ UNCHANGED <<run_status, run_effects>>
       ELSE /\ run_pc' = "browser"
            /\ run_status' = "running"
            /\ run_effects' = run_effects \cup {"init_schema", "start_run"}
            /\ UNCHANGED run_error
    /\ UNCHANGED <<run_catalog, max_pages, page_num, run_records, run_fetched, imports_seen,
                   imports_scraped, settings_max_pages, list_results, run_processed, run_counts>>
    /\ UNCHANGED detail_vars
    /\ UNCHANGED not_run

\* as run_fails, with the exception raised and the run row left as it is
run_fails_unfinished(error, effects, seen) ==
    /\ run_pc' = "raised"
    /\ run_error' = error
    /\ run_effects' = run_effects \cup effects
    /\ UNCHANGED <<run_status, run_counts>>

\* lines 454-462: an exception escapes the collection: finish_run with status
\* error and the counters reached, then the exception is raised again
run_fails(error, effects, seen) ==
    /\ run_pc' = "raised"
    /\ run_error' = error
    /\ run_status' = "error"
    /\ run_counts' = <<seen, imports_scraped>>
    /\ run_effects' = run_effects \cup effects \cup {"finish_run"}

\* lines 291-313: the browser is launched and the portal opened; a failed login
\* or menu click is only logged
open_browser ==
    /\ run_pc = "browser"
    /\ \/ /\ run_pc' = "page"
          /\ run_effects' = run_effects \cup {"launch", "goto"}
          /\ UNCHANGED <<run_status, run_error, run_counts>>
       \/ run_fails("Error", {"launch"}, imports_seen)
    /\ UNCHANGED <<run_catalog, max_pages, page_num, run_records, run_fetched, imports_seen,
                   imports_scraped, settings_max_pages, list_results, run_processed>>
    /\ UNCHANGED detail_vars
    /\ UNCHANGED not_run

\* lines 274 and 315: max_pages or settings.max_pages; max_pages is <<>> when the
\* caller gives none (None) and <<n>> when the caller gives n
effective_max_pages ==
    IF max_pages = <<>> \/ max_pages[1] = 0 THEN settings_max_pages ELSE max_pages[1]

\* the step after the last import of a page, or after a break (lines 315, 341, 351)
pc_after_page(page, broke) ==
    IF broke \/ page + 1 > effective_max_pages THEN "closing" ELSE "page"

\* what one pass of the page loop got from its imports_list call: "None" when the
\* call was skipped, else the status and the number of records of the result
list_result(page, result, status, yielded) ==
    [page |-> page, result |-> result, status |-> status, records |-> yielded]

\* the record lists an imports_list page may carry
RawWithId == JObj([k \in {"id"} |-> JNum(5)])
RawWithoutId == JObj([k \in {"name"} |-> JStr(<<"x">>)])
RawWithReference ==
    JObj([k \in {"id", "permitNo"} |-> IF k = "id" THEN JStr(<<>>) ELSE JStr(<<"x", "/", "IP7">>)])
RecordLists == {<<RawWithId>>, <<RawWithoutId, RawWithId>>, <<RawWithReference>>}

\* lines 315-351: one imports_list call and what the loop does with its result
list_page ==
    /\ run_pc = "page"
    /\ LET endpoint == run_catalog.endpoints["imports_list"]
           fields == list_fields(page_num)
       IN IF unresolved(endpoint, fields)
          THEN /\ run_fails("RuntimeError", {}, imports_seen)
               /\ list_results' = Append(list_results, list_result(page_num, "None", 0, 0))
               /\ UNCHANGED <<run_fetched, run_records, page_num>>
          ELSE /\ run_fetched' = run_fetched \cup {request_of("imports_list", endpoint, fields)}
               /\ \/ \E status \in {401, 500} :
                        /\ run_fails("RuntimeError", {}, imports_seen)
                        /\ list_results' = Append(list_results, list_result(page_num, "failed", status, 0))
                        /\ UNCHANGED <<run_records, page_num>>
                  \/ /\ run_pc' = "closing"
                     /\ list_results' = Append(list_results, list_result(page_num, "no_json", 200, 0))
                     /\ UNCHANGED <<run_records, page_num, run_status, run_error, run_effects, run_counts>>
                  \/ /\ run_pc' = "closing"
                     /\ run_effects' = run_effects \cup {"raw_write"}
                     /\ list_results' = Append(list_results, list_result(page_num, "json", 200, 0))
                     /\ UNCHANGED <<run_records, page_num, run_status, run_error, run_counts>>
                  \/ \E payload \in RecordLists :
                        /\ run_records' = payload
                        /\ run_pc' = "import"
                        /\ run_effects' = run_effects \cup {"raw_write"}
                        /\ list_results' =
                              Append(list_results, list_result(page_num, "json", 200, Len(payload)))
                        /\ UNCHANGED <<page_num, run_status, run_error, run_counts>>
    /\ UNCHANGED <<run_catalog, max_pages, imports_seen, imports_scraped, settings_max_pages,
                   run_processed>>
    /\ UNCHANGED detail_vars
    /\ UNCHANGED not_run

\* the requests the detail calls of one import send (lines 367-387): a call
\* whose template stays unresolved sends nothing
detail_requests(page, raw) ==
    { request_of(role, run_catalog.endpoints[role], import_fields(page, raw)) :
        role \in {r \in DOMAIN run_catalog.endpoints \cap {"import_products", "import_suppliers"} :
                    ~unresolved(run_catalog.endpoints[r], import_fields(page, raw))} }

\* what a detail call gives as products_result or suppliers_result: no result
\* (the role has no template, or the call was skipped and returned None), or the
\* result of the fetch, rows being _extract_records of its JSON
NoDetailResult == [ok |-> FALSE, status |-> 0, json |-> "None", rows |-> <<>>]
FetchedResults(row_lists) ==
    { [ok |-> FALSE, status |-> 500, json |-> "none", rows |-> <<>>],
      [ok |-> TRUE,  status |-> 200, json |-> "none", rows |-> <<>>] }
    \cup {[ok |-> TRUE, status |-> 200, json |-> "records", rows |-> rows] : rows \in row_lists}

\* lines 367-387: the result of the detail call of a role for one import
detail_results(role, fields, row_lists) ==
    IF role \notin DOMAIN run_catalog.endpoints THEN {NoDetailResult}
    ELSE IF unresolved(run_catalog.endpoints[role], fields) THEN {NoDetailResult}
    ELSE FetchedResults(row_lists)

\* lines 364-387: the rows stay [] unless the result is ok and has JSON
rows_of(result) == IF result.ok /\ result.json = "records" THEN result.rows ELSE <<>>

\* storage.py, lines 199-273: the stored products, suppliers and links of the
\* import reference are deleted and the given rows inserted
replace_browser_detail(stored, import_reference, products, suppliers, found_links) ==
    [key \in DOMAIN stored \cup {import_reference} |->
        IF key = import_reference
        THEN [products |-> products, suppliers |-> suppliers, links |-> found_links]
        ELSE stored[key]]

\* the last replace_browser_detail call: its import reference, the results of
\* the detail calls its rows came from, and the rows it found stored for the
\* reference: <<>> when there were none, else <<rows>>
NoReplace ==
    [import_reference |-> <<>>, products_result |-> NoDetailResult,
     suppliers_result |-> NoDetailResult, before |-> <<>>]
stored_for(stored, import_reference) ==
    IF import_reference \in DOMAIN stored THEN <<stored[import_reference]>> ELSE <<>>

\* the rows the detail calls of an import answer with
DetailProductRows ==
    {<< <<Pair("productName", JStr(<<"X">>)), Pair("supplierName", JStr(<<"A">>))>>,
        <<Pair("productName", JStr(<<"Y">>))>> >>}
DetailSupplierRows == {<< <<Pair("name", JStr(<<"A">>))>> >>}

\* lines 353-433: one import of the page, counted as seen: either an error
\* raised inside the loop body (the page is gone, the raw file cannot be written)
\* escapes before anything is stored, or the detail calls are made and the raw
\* file, the rows in the store and the counters are written
process_import ==
    /\ run_pc = "import"
    /\ run_records # <<>>
    /\ imports_seen' = imports_seen + 1
    /\ \/ /\ run_fails("Error", {}, imports_seen + 1)
          /\ UNCHANGED <<run_fetched, run_processed, detail_store, last_replace,
                         imports_scraped, products_seen, suppliers_seen, links_seen,
                         run_records, page_num>>
       \/ \E for_products \in detail_results("import_products",
                                             import_fields(page_num, Head(run_records)),
                                             DetailProductRows),
             for_suppliers \in detail_results("import_suppliers",
                                              import_fields(page_num, Head(run_records)),
                                              DetailSupplierRows) :
           LET products == normalize_products(rows_of(for_products))
               suppliers == normalize_suppliers(rows_of(for_suppliers))
               found_links == build_links(products, suppliers)
               key == import_reference_key(page_num, imports_seen + 1, Head(run_records))
           IN /\ run_fetched' = run_fetched \cup detail_requests(page_num, Head(run_records))
              /\ run_processed' =
                     run_processed \cup {[page |-> page_num, raw |-> Head(run_records)]}
              /\ run_effects' = run_effects \cup
                     {"raw_write", "upsert_browser_import", "replace_browser_detail"}
              /\ detail_store' =
                     replace_browser_detail(detail_store, key, products, suppliers, found_links)
              /\ last_replace' =
                     [import_reference |-> key, products_result |-> for_products,
                      suppliers_result |-> for_suppliers,
                      before |-> stored_for(detail_store, key)]
              /\ imports_scraped' = imports_scraped + 1
              /\ products_seen' = products_seen + Len(products)
              /\ suppliers_seen' = suppliers_seen + Len(suppliers)
              /\ links_seen' = links_seen + Len(found_links)
              /\ run_records' = Tail(run_records)
              /\ IF Tail(run_records) = <<>>
                 THEN /\ run_pc' = pc_after_page(page_num, FALSE)
                      /\ page_num' =
                             IF page_num + 1 > effective_max_pages THEN page_num
                             ELSE page_num + 1
                 ELSE UNCHANGED <<run_pc, page_num>>
              /\ UNCHANGED <<run_status, run_error, run_counts>>
    /\ UNCHANGED <<run_catalog, max_pages, settings_max_pages, list_results>>
    /\ UNCHANGED not_run

\* lines 435-453: browser closed, links CSV written, run finished; an error while
\* closing or writing marks the run as error
finish ==
    /\ run_pc = "closing"
    /\ \/ /\ run_pc' = "returned"
          /\ run_status' = "success"
          /\ run_counts' = <<imports_seen, imports_scraped>>
          /\ run_effects' = run_effects \cup {"csv_write", "finish_run"}
          /\ UNCHANGED run_error
       \/ run_fails("Error", {}, imports_seen)
    /\ UNCHANGED <<run_catalog, max_pages, page_num, run_records, run_fetched, imports_seen,
                   imports_scraped, settings_max_pages, list_results, run_processed>>
    /\ UNCHANGED detail_vars
    /\ UNCHANGED not_run

\* the catalogs and the pages a run is tried on
MaxPages == 2
ApiPath(last) == <<"/", "api", "/", "ImportPermit", "/">> \o last
ListTemplates ==
    { [method |-> "GET", url |-> JStr(ApiPath(<<"List">>)),
       params |-> JObj([k \in {"page"} |-> JStr(<<"{", "page", "}">>)]), json |-> JNull],
      [method |-> "GET", url |-> JStr(ApiPath(<<"List", "/", "{", "import_id", "}">>)),
       params |-> NoParams, json |-> JNull] }
DetailTemplates(name) ==
    { [method |-> "GET", url |-> JStr(ApiPath(<<"{", "import_id", "}", "/", name>>)),
       params |-> NoParams, json |-> JNull],
      [method |-> "GET", url |-> JStr(ApiPath(<<"{", "x", "}", "/", name>>)),
       params |-> NoParams, json |-> JNull] }
TemplatesOf(role) ==
    CASE role = "imports_list" -> ListTemplates
      [] role = "import_products" -> DetailTemplates("Products")
      [] OTHER -> DetailTemplates("Suppliers")
Catalogs ==
    {[exists |-> FALSE, endpoints |-> <<>>]} \cup
    UNION { {[exists |-> TRUE, endpoints |-> e] :
                e \in {f \in [roles -> UNION {TemplatesOf(r) : r \in roles}] :
                          \A r \in roles : f[r] \in TemplatesOf(r)}} :
            roles \in SUBSET {"imports_list", "import_products", "import_suppliers"} }
\* the detail rows in the store when the run starts: none, or those an earlier
\* run stored for the import with id 5
NoRows == <<>>
EarlierRows ==
    LET products == normalize_products(CHOOSE rows \in DetailProductRows : TRUE)
        suppliers == normalize_suppliers(CHOOSE rows \in DetailSupplierRows : TRUE)
    IN replace_browser_detail(NoRows, import_reference_key(1, 1, RawWithId), products, suppliers,
                              build_links(products, suppliers))
InitRun ==
    /\ run_pc = "called"
    /\ run_catalog \in Catalogs
    /\ max_pages \in {<<>>} \cup {<<n>> : n \in 0..MaxPages}
    /\ settings_max_pages \in 1..MaxPages
    /\ list_results = <<>>
    /\ run_processed = {}
    /\ page_num = 1
    /\ run_records = <<>>
    /\ run_status = "none"
    /\ run_error = "none"
    /\ run_effects = {}
    /\ run_fetched = {}
    /\ imports_seen = 0
    /\ imports_scraped = 0
    /\ products_seen = 0
    /\ suppliers_seen = 0
    /\ links_seen = 0
    /\ run_counts = <<>>
    /\ detail_store \in {NoRows, EarlierRows}
    /\ last_replace = NoReplace
IdleRun ==
    /\ run_pc = "idle"
    /\ run_catalog = [exists |-> FALSE, endpoints |-> <<>>]
    /\ max_pages = <<>>
    /\ settings_max_pages = 1
    /\ list_results = <<>>
    /\ run_processed = {}
    /\ page_num = 1
    /\ run_records = <<>>
    /\ run_status = "none"
    /\ run_error = "none"
    /\ run_effects = {}
    /\ run_fetched = {}
    /\ imports_seen = 0
    /\ imports_scraped = 0
    /\ products_seen = 0
    /\ suppliers_seen = 0
    /\ links_seen = 0
    /\ run_counts = <<>>
    /\ detail_store = NoRows
    /\ last_replace = NoReplace

(***************************************************************************)
(* One template: _template_from_event on a captured event, then the        *)
(* template resolved with the identifiers sampled from the same event      *)
(***************************************************************************)
\* whether the record holds a value under one of the keys (lines 99-102)
has_value(first, keys) ==
    \E i \in 1..Len(keys) :
        keys[i] \in DOMAIN first.o /\ first.o[keys[i]] # JNull /\ first.o[keys[i]] # JStr(<<>>)

\* the import_id of _first_record_identifiers, as a value: None or a str
sample_import_id(payload) ==
    LET records == extract_records(payload) IN
    IF records # <<>> /\ has_value(records[1], SAMPLE_ID_KEYS)
    THEN JStr(first_record_identifiers(payload).import_id)
    ELSE JNull

build_template ==
    /\ tp_pc = "event"
    /\ tp_pc' = "template"
    /\ tp_template' = template_from_event(tp_event, tp_role)
    /\ UNCHANGED <<tp_event, tp_role, tp_resolved>>
    /\ UNCHANGED not_tp

\* _call_endpoint, lines 248 and 251: the url is formatted, the headers are
\* passed on as the template has them
resolve_template ==
    /\ tp_pc = "template"
    /\ tp_pc' = "resolved"
    /\ tp_resolved' =
          [url |-> format_recursive(tp_template.url,
                                    [name \in {"import_id"} |-> sample_import_id(tp_event.response_json)]),
           headers |-> tp_template.headers]
    /\ UNCHANGED <<tp_event, tp_role, tp_template>>
    /\ UNCHANGED not_tp

\* the events a template is built from
SampleUrls ==
    { UrlList \o <<"?", "start", "=", "0", "&", "length", "=", "10">>,
      <<"/", "api", "/", "ImportPermit", "/", "5", "/", "Products">>,
      <<"/", "api", "/", "ImportPermit", "/", "3f2a9c0e-1b2d-4e5f-8a9b">>,
      <<"/", "api", "/", "{", "x", "}", "/", "5">>,
      <<"/", "api", "/", "0123456789abcdeF", "/", "0123456789abcde", "/", "0123456789abcdeg">>,
      <<"/", "api", "/", "Medicine", "/", "42", "/", "x", "?", "id", "=", "42">>,
      UrlList \o <<"?", "pageSize", "=", "50", "&", "preference", "=", "x", "&", "q", "=", "x",
                  "&", "importGuid", "=", "x", "&", "width", "=", "7">>,
      <<"/", "api", "/", "5", "/", "Suppliers", "/", "9", "/">> }
SampleBodies ==
    { JNull, ListBody, RecordsOf("X"),
      JList(<<JObj([k \in {"id"} |-> JNum(7)])>>),
      JList(<<JObj([k \in {"importId"} |-> JStr(<<"12", "/", "24">>)])>>) }
SampleHeaders ==
    { NoHeaders,
      [key \in {"Accept", "Authorization"} |->
          IF key = "Accept" THEN "application/json" ELSE "<redacted>"],
      [key \in {"ACCEPT", "Content-Type", "Cookie"} |->
          CASE key = "ACCEPT" -> "" [] key = "Content-Type" -> "application/json"
            [] OTHER -> "<redacted>"],
      [key \in {"X-Requested-With", "CSRF-Token", "X-CSRF-Token", "Accept"} |->
          CASE key = "X-Requested-With" -> "XMLHttpRequest" [] key = "CSRF-Token" -> "tok"
            [] OTHER -> "<redacted>"] }
SampleRequestBodies ==
    { JNum(7), JStr(<<"x">>),
      JList(<<JNum(1), JObj([k \in {"page"} |-> JNum(2)])>>),
      JObj([k \in {"page", "pageSize", "filter"} |->
              CASE k = "page" -> JNum(1) [] k = "pageSize" -> JNum(50)
                [] OTHER -> JObj([m \in {"importId", "q"} |->
                                    IF m = "q" THEN JStr(<<"x">>) ELSE JNum(5)])]),
      JObj([k \in {"id", "q", "permitNo"} |->
              CASE k = "id" -> JList(<<JNum(1), JObj([m \in {"x", "Start"} |->
                                                        IF m = "x" THEN JNum(2) ELSE JNull])>>)
                [] k = "q" -> JList(<<JNum(3), JList(<<>>)>>)
                [] OTHER -> JNull]) }
SampleEvents ==
    { [Captured("GET", url, 200, body) EXCEPT !.request_headers = headers] :
        url \in SampleUrls, body \in SampleBodies, headers \in SampleHeaders } \cup
    { [Captured("POST", UrlList, 200, ListBody) EXCEPT !.request_json = body] :
        body \in SampleRequestBodies }
TemplateRoles == {"imports_list"} \cup SECONDARY_ROLES

InitTemplate ==
    /\ tp_pc = "event"
    /\ tp_event \in SampleEvents
    /\ tp_role \in TemplateRoles
    /\ tp_template = <<>>
    /\ tp_resolved = <<>>
IdleTemplate ==
    /\ tp_pc = "idle"
    /\ tp_event = <<>>
    /\ tp_role = "none"
    /\ tp_template = <<>>
    /\ tp_resolved = <<>>

(***************************************************************************)
(* One event scored for the imports_list role                              *)
(***************************************************************************)
score_event ==
    /\ sc_pc = "event"
    /\ sc_pc' = "scored"
    /\ sc_score' = score_imports_list(sc_event)
    /\ UNCHANGED sc_event
    /\ UNCHANGED not_sc

\* the events a score is computed for
ScoredUrls ==
    { UrlList,
      UrlList \o <<"?", "start", "=", "0", "&", "length", "=", "10">>,
      UrlList \o <<"?", "page", "=", "&", "pageSize", "=">>,
      UrlList \o <<"?", "q", "=", "x", "&", "Start", "=", "1">>,
      <<"/", "api", "/", "ImportPermit", "/", "5", "/", "Products">>,
      <<"/", "api", "/", "Suppliers", "?", "pageSize", "=", "50">>,
      <<"/", "api", "/", "Medicine", "/", "9">> }
ScoredBodies ==
    { JNull, ListBody, RecordsOf("X"), JList(<<>>),
      JObj([k \in {"message"} |-> JStr(<<"x">>)]),
      JList(<<JObj([k \in {"permitNo"} |-> JStr(<<"x">>)])>>),
      JList(<<JObj([k \in {"reference", "importId"} |-> JStr(<<"x">>)]),
              JObj([k \in {"name"} |-> JStr(<<"x">>)])>>) }
ScoredEvents ==
    { Captured(method, url, 200, body) :
        method \in {"GET", "POST", "PUT"}, url \in ScoredUrls, body \in ScoredBodies }

InitScore ==
    /\ sc_pc = "event"
    /\ sc_event \in ScoredEvents
    /\ sc_score = 0
IdleScore ==
    /\ sc_pc = "idle"
    /\ sc_event = <<>>
    /\ sc_score = 0

(***************************************************************************)
(* Specifications                                                          *)
(***************************************************************************)
NextCall == call_endpoint
InitSpecCall == InitCall /\ IdleCapture /\ IdleInfer /\ IdleScrape /\ IdleRun /\ IdleLinks /\ IdleExtract /\ IdleTemplate /\ IdleScore
SpecCall == InitSpecCall /\ [][NextCall]_vars

NextCapture ==
    \/ on_request
    \/ on_response
    \/ on_response_body
    \/ start_gather
    \/ end_gather
    \/ write_capture
InitSpecCapture == IdleCall /\ InitCapture /\ IdleInfer /\ IdleScrape /\ IdleRun /\ IdleLinks /\ IdleExtract /\ IdleTemplate /\ IdleScore
SpecCapture == InitSpecCapture /\ [][NextCapture]_vars

NextInfer == infer
InitSpecInfer == IdleCall /\ IdleCapture /\ InitInfer /\ IdleScrape /\ IdleRun /\ IdleLinks /\ IdleExtract /\ IdleTemplate /\ IdleScore
SpecInfer == InitSpecInfer /\ [][NextInfer]_vars

NextScrape ==
    \/ start_batch
    \/ fetch_done
    \/ gather_returns
    \/ login_returns
    \/ login_raises
    \/ retry_returns
InitSpecScrape == IdleCall /\ IdleCapture /\ IdleInfer /\ InitScrape /\ IdleRun /\ IdleLinks /\ IdleExtract /\ IdleTemplate /\ IdleScore
SpecScrape == InitSpecScrape /\ [][NextScrape]_vars

NextRun ==
    \/ run_begin
    \/ open_browser
    \/ list_page
    \/ process_import
    \/ finish
InitSpecRun == IdleCall /\ IdleCapture /\ IdleInfer /\ IdleScrape /\ InitRun /\ IdleLinks /\ IdleExtract /\ IdleTemplate /\ IdleScore
SpecRun == InitSpecRun /\ [][NextRun]_vars
\* the run is one coroutine awaited to its end: a step that can be taken is
\* taken.  The runs are those of a caller that gives no max_pages, so that
\* settings.max_pages is the ceiling.
InitSpecRunFair == InitSpecRun /\ max_pages = <<>>
SpecRunFair == InitSpecRunFair /\ [][NextRun]_vars /\ WF_vars(NextRun)

NextLinks == link_import
InitSpecLinks ==
    IdleCall /\ IdleCapture /\ IdleInfer /\ IdleScrape /\ IdleRun /\ InitLinks /\ IdleExtract /\ IdleTemplate /\ IdleScore
SpecLinks == InitSpecLinks /\ [][NextLinks]_vars

NextExtract ==
    \/ capture_extracts
    \/ runner_extracts
InitSpecExtract == IdleCall /\ IdleCapture /\ IdleInfer /\ IdleScrape /\ IdleRun /\ IdleLinks /\ InitExtract /\ IdleTemplate /\ IdleScore
SpecExtract == InitSpecExtract /\ [][NextExtract]_vars

NextTemplate ==
    \/ build_template
    \/ resolve_template
InitSpecTemplate ==
    IdleCall /\ IdleCapture /\ IdleInfer /\ IdleScrape /\ IdleRun /\ IdleLinks /\ IdleExtract /\ InitTemplate /\ IdleScore
SpecTemplate == InitSpecTemplate /\ [][NextTemplate]_vars

NextScore == score_event
InitSpecScore ==
    IdleCall /\ IdleCapture /\ IdleInfer /\ IdleScrape /\ IdleRun /\ IdleLinks /\ IdleExtract /\ IdleTemplate /\ InitScore
SpecScore == InitSpecScore /\ [][NextScore]_vars

Init == InitCall /\ InitCapture /\ InitInfer /\ InitScrape /\ InitRun /\ InitLinks /\ InitExtract /\ InitTemplate /\ InitScore
Next == NextCall \/ NextCapture \/ NextInfer \/ NextScrape \/ NextRun \/ NextLinks \/ NextExtract \/ NextTemplate \/ NextScore
Spec == Init /\ [][Next]_vars

(***************************************************************************)
(* Claims                                                                  *)
(***************************************************************************)
\* C1: a call whose url, params or JSON body still holds a placeholder-shaped
\* token after substitution makes no invocation of the HTTP execution context
\* and returns None
PlaceholderShaped(s) ==
    \E i \in 1..Len(s) : \E j \in (i + 2)..Len(s) :
        /\ s[i] = "{" /\ s[j] = "}"
        /\ s[i + 1] \in NameUnits
        /\ \A k \in (i + 1)..(j - 1) : s[k] \in NameChars
RECURSIVE StringsOf(_)
StringsOf(value) ==
    CASE value.t = "str"  -> {value.s}
      [] value.t = "obj"  -> UNION {StringsOf(value.o[k]) : k \in DOMAIN value.o}
      [] value.t = "list" -> UNION {StringsOf(value.l[i]) : i \in DOMAIN value.l}
      [] OTHER -> {}
TokenLeft(endpoint, fields) ==
    \E part \in {endpoint.url, endpoint.params, endpoint.json} :
        \E s \in StringsOf(format_recursive(part, fields)) : PlaceholderShaped(s)
C1_NoFetchWhenUnresolved ==
    (ce_pc = "returned" /\ TokenLeft(ce_endpoint, ce_fields))
        => (ce_fetches = <<>> /\ ce_result = NoResult)
C1_Witness ==
    /\ ce_pc = "returned"
    /\ ce_endpoint.json = JObj([k \in {"k"} |-> JStr(<<"{", "import_id", "}", "{", "page", "}">>)])
    /\ DOMAIN ce_fields = {"page"}
    /\ ce_fetches = <<>>
    /\ ce_result = NoResult
\* C2: the event map holds exactly one event per distinct (method, URL) seen,
\* whichever side came first; a merge keeps the fields the other side wrote; the
\* count written to the capture file is the number of distinct keys
SeenPairs == {<<x[1], x[2]>> : x \in cap_seen}
RequestOf(method, url) ==
    CHOOSE request \in Requests :
        request.method = method /\ request.url = url /\ request.resource_type \in {"xhr", "fetch"}
C2_OneEventPerKey ==
    /\ DOMAIN events_by_key = {<<pair[1], " ">> \o pair[2] : pair \in SeenPairs}
    /\ Cardinality(DOMAIN events_by_key) = Cardinality(SeenPairs)
    /\ \A x \in cap_seen :
        LET event == events_by_key[<<x[1], " ">> \o x[2]]
            request == RequestOf(x[1], x[2])
        IN /\ event.method = x[1]
           /\ event.url = x[2]
           /\ event.resource_type = request.resource_type
           /\ DOMAIN event.request_headers = DOMAIN request.headers
           /\ event.request_json = request.post_data_json
           /\ x[3] = "response" => (event.status # NoStatus /\ event.response_headers # NoHeaders)
    /\ cap_pc = "written" => cap_file.count = Cardinality(SeenPairs)
C2_Witness ==
    /\ cap_pc = "written"
    /\ cap_seen = {<<"GET", UrlList, "response">>, <<"GET", UrlList, "request">>,
                   <<"POST", UrlList, "response">>}
    /\ cap_file.count = 2

\* C3: when the capture file is serialized no handler task is still in flight,
\* tasks started during the gather or the closing included, so no event of the
\* file has its status written and its body fields still to come
C3_NoTaskInFlightAtWrite ==
    cap_pc = "written" =>
        /\ pending_tasks = {}
        /\ \A item \in cap_file.items :
              item.status # NoStatus =>
                 \A task \in pending_tasks :
                    event_key(task.response.request) # <<item.method, " ">> \o item.url

\* C4 (as amended): in every stored or emitted event the value of each header
\* named authorization, cookie, set-cookie or x-csrf-token, in any letter case,
\* is the marker "<redacted>", in request_headers and in response_headers
StoredEvents == {events_by_key[k] : k \in DOMAIN events_by_key} \cup cap_file.items
Cleared(headers, names) ==
    \A key \in DOMAIN headers : lower(key) \in names => headers[key] = "<redacted>"
C4_SensitiveHeadersRedacted ==
    \A event \in StoredEvents :
        /\ Cleared(event.request_headers, {"authorization", "cookie", "set-cookie", "x-csrf-token"})
        /\ Cleared(event.response_headers, {"authorization", "cookie", "set-cookie", "x-csrf-token"})
\* C4 as claimed: the fourth name is csrf-token
C4_AsClaimed ==
    \A event \in StoredEvents :
        /\ Cleared(event.request_headers, {"authorization", "cookie", "set-cookie", "csrf-token"})
        /\ Cleared(event.response_headers, {"authorization", "cookie", "set-cookie", "csrf-token"})
C4_Witness ==
    /\ cap_pc = "written"
    /\ \E item \in cap_file.items :
        /\ item.method = "GET"
        /\ item.request_headers["Authorization"] = "<redacted>"
        /\ "Set-Cookie" \in DOMAIN item.response_headers
        /\ item.response_headers["Set-Cookie"] = "<redacted>"
    /\ \E item \in cap_file.items :
        /\ item.method = "POST"
        /\ <<"POST", UrlList, "request">> \notin cap_seen
        /\ item.request_headers["X-CSRF-Token"] = "<redacted>"
        /\ item.request_headers["cookie"] = "<redacted>"

\* C5: a replay run on a catalog file that lacks imports_list fails with the
\* error of _load_endpoints before a run record is started, before any browser
\* or HTTP call and before anything is written to the store or to disk.
LacksImportsList ==
    run_catalog.exists /\ "imports_list" \notin DOMAIN run_catalog.endpoints
C5_LoadFailsBeforeAnyEffect ==
    (LacksImportsList /\ run_pc \notin {"idle", "called"})
        => /\ run_pc = "raised"
           /\ run_error = "ValueError"
           /\ run_status = "none"
           /\ run_effects = {}
           /\ run_fetched = {}
C5_Witness ==
    LacksImportsList /\ run_pc = "raised" /\ DOMAIN run_catalog.endpoints # {}

\* C6: the catalog has imports_list exactly when some event qualifies (a status
\* below 400, a parsed response body, a relevance token in the URL); it is built
\* from a qualifying event of the highest imports_list score, whatever that
\* score is; no template of the catalog comes from a non-qualifying event
RelevanceTokens == {"api", "import", "supplier", "product", "permit", "medicine", "eris"}
Qualifies(event) ==
    /\ event.status # NoStatus
    /\ event.status < 400
    /\ event.response_json # JNull
    /\ \E i \in 1..Len(event.url) : keywords_in(event.url[i]) \cap RelevanceTokens # {}
Qualifying == {inf_events[i] : i \in {j \in 1..Len(inf_events) : Qualifies(inf_events[j])}}
Roles == {"imports_list", "import_detail", "import_products", "import_suppliers"}
SourceOf(role, event) ==
    /\ inf_endpoints[role].sample_url = event.url
    /\ inf_endpoints[role].method = event.method
    /\ inf_endpoints[role].sample_status = event.status
C6_ImportsListFromBestQualifying ==
    inf_pc = "inferred" =>
        /\ ("imports_list" \in DOMAIN inf_endpoints) <=> (Qualifying # {})
        /\ Qualifying # {} =>
              \E event \in Qualifying :
                 /\ SourceOf("imports_list", event)
                 /\ \A other \in Qualifying : score_imports_list(other) <= score_imports_list(event)
        /\ \A role \in Roles \cap DOMAIN inf_endpoints :
              \E event \in Qualifying : SourceOf(role, event)
C6_Witness ==
    /\ inf_pc = "inferred"
    /\ inf_events = <<EvNotFound, EvDelete>>
    /\ score_imports_list(EvDelete) = 0
    /\ score_imports_list(EvNotFound) > 0
    /\ SourceOf("imports_list", EvDelete)

\* C7 (as amended): a secondary role is in the catalog only if the highest score a
\* qualifying event obtains for it is at least 20, and its template is then built
\* from an event of that score; otherwise the key is absent
BestScore(role) ==
    CHOOSE n \in {score_role(event, role) : event \in Qualifying} :
        \A event \in Qualifying : score_role(event, role) <= n
C7_RoleAtLeastThreshold ==
    inf_pc = "inferred" =>
        \A role \in {"import_detail", "import_products", "import_suppliers"} :
            role \in DOMAIN inf_endpoints =>
                /\ Qualifying # {}
                /\ BestScore(role) >= 20
                /\ \E event \in Qualifying :
                      SourceOf(role, event) /\ score_role(event, role) = BestScore(role)
\* C7 as claimed: the role is present only if the best score exceeds 20
C7_AsClaimed ==
    inf_pc = "inferred" =>
        \A role \in {"import_detail", "import_products", "import_suppliers"} :
            role \in DOMAIN inf_endpoints => (Qualifying # {} /\ BestScore(role) > 20)
C7_Witness ==
    /\ inf_pc = "inferred"
    /\ inf_events = <<EvPut, EvAsset>>
    /\ score_role(EvPut, "import_products") = 20
    /\ SourceOf("import_products", EvPut)
    /\ SourceOf("import_suppliers", EvPut)
    /\ "import_detail" \notin DOMAIN inf_endpoints

(***************************************************************************)
(* C8: in scrape_products every fetch that returned 401, in any batch, is  *)
(* retried exactly once with the refreshed credential before it is counted *)
(* as an error.                                                            *)
(***************************************************************************)
C8_Every401RetriedOnce ==
    \A i \in Ids :
        (sp_first[i] = 401 /\ i \in sp_counted)
            => (Len(sp_sent[i]) = 2 /\ sp_sent[i][2] # sp_sent[i][1])

(***************************************************************************)
(* C9: at most one _login_for_token per batch, started only after every    *)
(* fetch of the batch has completed, so that no fetch is in flight while   *)
(* the Authorization header is replaced.                                   *)
(***************************************************************************)
C9_OneRefreshPerBatchAfterGather ==
    /\ sp_logins <= 1
    /\ sp_pc = "login" => (in_flight = {} /\ waiting = {})
    /\ \A i \in in_flight : sp_sent[i][Len(sp_sent[i])] = headers_token
C9_Witness ==
    /\ sp_pc = "retry"
    /\ sp_logins = 1
    /\ Cardinality(needs_retry) >= 2
    /\ in_flight = needs_retry

(***************************************************************************)
(* C10: at most CONCURRENCY_PRODUCTS fetches in flight at any moment, in   *)
(* first-attempt and retry rounds; they share the headers; the fetches of  *)
(* a batch and of its retry round complete before the next batch starts.   *)
(***************************************************************************)
C10_BoundedFlightWithinBatch ==
    /\ Cardinality(in_flight) <= CONCURRENCY_PRODUCTS
    /\ \A i \in in_flight \cup waiting :
        batch_start < i /\ i <= batch_start + CONCURRENCY_PRODUCTS
    /\ \A i, j \in in_flight : sp_sent[i][Len(sp_sent[i])] = sp_sent[j][Len(sp_sent[j])]
    /\ sp_pc \in {"batch", "done"} => in_flight = {}
    /\ sp_pc = "retry" => in_flight \subseteq needs_retry
C10_Witness ==
    /\ Cardinality(in_flight) = CONCURRENCY_PRODUCTS
    /\ Len(to_process) > CONCURRENCY_PRODUCTS

\* C11: the imports_list calls of a replay run are for the pages 1, 2, 3, ... in
\* this order; no call follows a page that yielded zero records; and there are
\* never more calls than the page ceiling the caller supplied
ListCalls == SelectSeq(list_results, LAMBDA entry : entry.result # "None")
PagesInOrder == \A i \in 1..Len(list_results) : list_results[i].page = i
StopsAtEmptyPage == \A i \in 1..(Len(list_results) - 1) : list_results[i].records > 0
C11_PaginationWithinCeiling ==
    /\ PagesInOrder
    /\ StopsAtEmptyPage
    /\ max_pages # <<>> => Len(ListCalls) <= max_pages[1]
\* what holds of the code: the calls stay within max_pages or settings.max_pages
C11_WithinEffectiveCeiling ==
    /\ PagesInOrder
    /\ StopsAtEmptyPage
    /\ Len(ListCalls) <= effective_max_pages

\* C12: for an import from which _import_identity obtains no identifier, no
\* import_products or import_suppliers request built from a template that holds
\* {import_id} reaches the HTTP execution context
HoldsImportId(endpoint) ==
    \E part \in {endpoint.url, endpoint.params, endpoint.json} :
        \E s \in StringsOf(part) :
            \E i \in 1..(Len(s) - 2) : s[i] = "{" /\ s[i + 1] = "import_id" /\ s[i + 2] = "}"
DetailRoles == {"import_products", "import_suppliers"}
C12_NoRequestFromMissingId ==
    \A done \in run_processed :
        import_identity(done.raw)[1] = None =>
            \A role \in DetailRoles \cap DOMAIN run_catalog.endpoints :
                HoldsImportId(run_catalog.endpoints[role]) =>
                    request_of(role, run_catalog.endpoints[role],
                               import_fields(done.page, done.raw)) \notin run_fetched

\* C13: a call whose template stays unresolved after binding is skipped and the
\* run goes on: the run is neither terminated nor marked as error, for the
\* template of every role, imports_list included
C13_SkippedCallIsNotFatal ==
    \A i \in 1..Len(list_results) :
        list_results[i].result = "None" => (run_status # "error" /\ run_pc # "raised")
\* what holds of the code: a RuntimeError comes from the imports_list call only,
\* skipped or failed; a skipped or failed detail call never ends the run
RuntimeErrorFromListCallOnly ==
    run_error = "RuntimeError" =>
        /\ list_results # <<>>
        /\ list_results[Len(list_results)].result \in {"None", "failed"}

\* C14: a replay run ends abnormally only on credential expiry or catalog
\* absence: a non-success status of a replay call, of any role, is a failed
\* result and by itself neither raises out of the run nor marks it as error
C14_FailedStatusIsNotFatal ==
    \A i \in 1..Len(list_results) :
        (list_results[i].result = "failed" /\ list_results[i].status # 401)
            => (run_status # "error" /\ run_pc # "raised")

\* the distinct non-empty names of the normalized supplier list
NonEmptySupplierNames ==
    {lk_suppliers[j].supplier_name : j \in {k \in 1..Len(lk_suppliers) : truthy(lk_suppliers[k].supplier_name)}}

\* the link the rule gives to product i
ExpectedLink(i) ==
    IF truthy(lk_products[i].supplier_name)
    THEN link_of(lk_products[i].product_name, lk_products[i].supplier_name, "high", "product_row")
    ELSE IF Cardinality(NonEmptySupplierNames) = 1
    THEN link_of(lk_products[i].product_name, CHOOSE name \in NonEmptySupplierNames : TRUE,
                 "medium", "single_supplier_in_import")
    ELSE link_of(lk_products[i].product_name, JNull, "low", "unresolved")

\* C15: _build_links returns one link per product, in product order: high
\* and product_row with the product's own supplier name when the product has
\* a non-empty one, else medium and single_supplier_in_import with the only
\* name when the non-empty supplier names are exactly one distinct name, else
\* low and unresolved with no supplier.
C15_OneLinkPerProduct ==
    lk_pc = "linked" =>
        /\ Len(links) = Len(lk_products)
        /\ \A i \in 1..Len(links) : links[i] = ExpectedLink(i)

\* two products, the first with its own supplier and the second without one,
\* and two supplier rows that carry the same name: the second link is medium
C15_Witness ==
    /\ lk_pc = "linked"
    /\ Len(links) = 2
    /\ Len(lk_suppliers) = 2
    /\ links[1].confidence = "high"
    /\ links[2].confidence = "medium"
    /\ links[2].supplier_name = JStr(<<"A">>)

\* a product without a supplier and two different supplier names: low
C15_WitnessLow ==
    /\ lk_pc = "linked"
    /\ Cardinality(NonEmptySupplierNames) = 2
    /\ \E i \in 1..Len(links) : links[i].confidence = "low" /\ links[i].supplier_name = JNull

\* a list whose elements are all objects
ListOfObjects(value) ==
    value.t = "list" /\ \A i \in 1..Len(value.l) : value.l[i].t = "obj"

\* the aliases of an object payload whose value is a list of objects
AliasesWithRecords(payload) ==
    {i \in 1..Len(RECORD_KEYS) :
        RECORD_KEYS[i] \in DOMAIN payload.o /\ ListOfObjects(payload.o[RECORD_KEYS[i]])}

\* the records the rule gives for a payload
RecordsByRule(payload) ==
    CASE payload.t = "list" -> SelectSeq(payload.l, LAMBDA item : item.t = "obj")
      [] payload.t = "obj" /\ AliasesWithRecords(payload) # {} ->
            LET first == CHOOSE i \in AliasesWithRecords(payload) :
                            \A j \in AliasesWithRecords(payload) : i <= j
            IN payload.o[RECORD_KEYS[first]].l
      [] OTHER -> <<>>

\* C16: _extract_records, in both modules, returns the object-shaped elements
\* of a list payload in their order; for an object payload the value of the
\* first of items, results, records, data, content, value that is a list of
\* objects, passing over every alias whose value is not one; and the empty
\* list for every other payload.
C16_FirstListOfObjects ==
    ex_pc = "returned" => ex_records = RecordsByRule(ex_payload)

\* the aliases of an object payload whose value is a list of any elements
AliasesWithList(payload) ==
    {i \in 1..Len(RECORD_KEYS) :
        RECORD_KEYS[i] \in DOMAIN payload.o /\ payload.o[RECORD_KEYS[i]].t = "list"}

\* what both modules compute: the object-shaped elements of the first alias
\* whose value is a list, whatever its elements are
C16_FirstListFiltered ==
    ex_pc = "returned" =>
        ex_records =
            CASE ex_payload.t = "list" -> SelectSeq(ex_payload.l, LAMBDA item : item.t = "obj")
              [] ex_payload.t = "obj" /\ AliasesWithList(ex_payload) # {} ->
                    LET first == CHOOSE i \in AliasesWithList(ex_payload) :
                                    \A j \in AliasesWithList(ex_payload) : i <= j
                    IN SelectSeq(ex_payload.o[RECORD_KEYS[first]].l, LAMBDA item : item.t = "obj")
              [] OTHER -> <<>>

\* a list of numbers under items before a list of objects under data
C16_Witness ==
    /\ ex_pc = "returned"
    /\ ex_payload.t = "obj"
    /\ DOMAIN ex_payload.o = {"items", "data"}
    /\ ex_payload.o["items"] = JList(<<JNum(1), JNum(2)>>)
    /\ ex_payload.o["data"] = JList(<<RecordA>>)
    /\ ex_records = <<>>

\* the captured events are the three events of the scenario
IsScenario == inf_events \in ScenarioLists

\* the path of import 5 under a name, with the number replaced
ImportIdPath(name) ==
    JStr(<<"/", "api", "/", "ImportPermit", "/", "{", "import_id", "}", "/", name>>)

\* C17: from the events GET /api/ImportPermit/List, GET
\* /api/ImportPermit/5/Products and GET /api/ImportPermit/5/Suppliers, all
\* with status 200 and records, the catalog has imports_list built from the
\* List event, import_products from the Products event and import_suppliers
\* from the Suppliers event, and the segment 5 is {import_id} in the URLs of
\* the latter two.
C17_ScenarioCatalog ==
    (inf_pc = "inferred" /\ IsScenario) =>
        /\ {"imports_list", "import_products", "import_suppliers"} \subseteq DOMAIN inf_endpoints
        /\ inf_endpoints["imports_list"].sample_url = EvBareList.url
        /\ inf_endpoints["imports_list"].url = JStr(UrlList)
        /\ inf_endpoints["import_products"].sample_url = EvProducts.url
        /\ inf_endpoints["import_products"].url = ImportIdPath("Products")
        /\ inf_endpoints["import_suppliers"].sample_url = EvSuppliers.url
        /\ inf_endpoints["import_suppliers"].url = ImportIdPath("Suppliers")

\* the catalog inferred from the scenario, the List event captured last
C17_Witness ==
    /\ inf_pc = "inferred"
    /\ inf_events = <<EvSuppliers, EvProducts, EvBareList>>
    /\ "import_products" \in DOMAIN inf_endpoints
    /\ inf_endpoints["import_products"].url = ImportIdPath("Products")

\* the number of segments of the path of a URL
PathSegments(url) == Len(split(url_path(url), "/"))

\* C18: a template built from an event and resolved with the import_id
\* sampled from the same event gives a URL whose path has as many segments
\* as the path of the event's URL.
C18_RoundTripKeepsSegments ==
    tp_pc = "resolved" => PathSegments(tp_resolved.url.s) = PathSegments(tp_event.url)

\* the sampled import_id holds no path separator
SampleIdIsOneSegment ==
    \A i \in 1..Len(sample_import_id(tp_event.response_json).s) :
        sample_import_id(tp_event.response_json).s[i] \notin {"/", "?"}

\* the round trip keeps the number of segments whenever the sampled
\* import_id is one segment, a missing one included
C18_RoundTripOfOneSegmentId ==
    (tp_pc = "resolved" /\ SampleIdIsOneSegment) =>
        PathSegments(tp_resolved.url.s) = PathSegments(tp_event.url)

\* a numeric segment replaced by the sampled id 7
C18_Witness ==
    /\ tp_pc = "resolved"
    /\ tp_role = "import_products"
    /\ tp_template.url = JStr(<<"/", "api", "/", "ImportPermit", "/", "{", "import_id", "}", "/", "Products">>)
    /\ tp_resolved.url = JStr(<<"/", "api", "/", "ImportPermit", "/", "7", "/", "Products">>)

\* the header names that carry a credential
CredentialNames == {"authorization", "cookie", "set-cookie", "x-csrf-token", "csrf-token"}

\* C20: a template built by _template_from_event carries only headers named
\* accept, content-type or x-requested-with, in any letter case, whose value
\* is neither empty nor the redaction marker; it holds no authorization,
\* cookie, set-cookie or CSRF header, and the replay call sends no such
\* header.
C20_OnlyWhitelistedHeaders ==
    /\ tp_pc \in {"template", "resolved"} =>
          \A key \in DOMAIN tp_template.headers :
              /\ lower(key) \in {"accept", "content-type", "x-requested-with"}
              /\ lower(key) \notin CredentialNames
              /\ tp_template.headers[key] = tp_event.request_headers[key]
              /\ tp_template.headers[key] # ""
              /\ tp_template.headers[key] # "<redacted>"
    /\ tp_pc = "resolved" =>
          \A key \in DOMAIN tp_resolved.headers :
              key \in DOMAIN tp_template.headers /\ lower(key) \notin CredentialNames

\* an event with a CSRF header that was stored with its value and a redacted
\* Accept header: the template keeps X-Requested-With alone
C20_Witness ==
    /\ tp_pc = "resolved"
    /\ "CSRF-Token" \in DOMAIN tp_event.request_headers
    /\ tp_event.request_headers["CSRF-Token"] = "tok"
    /\ DOMAIN tp_template.headers = {"X-Requested-With"}
    /\ DOMAIN tp_resolved.headers = {"X-Requested-With"}

\* a string with every placeholder whose name is bound replaced by the text
\* of its value, and everything else as it was
RECURSIVE ReplaceBound(_, _, _)
ReplaceBound(s, i, fields) ==
    IF i > Len(s) THEN <<>>
    ELSE IF /\ i + 2 <= Len(s)
            /\ s[i] = "{" /\ s[i + 2] = "}"
            /\ s[i + 1] \in DOMAIN fields
         THEN PyStr(fields[s[i + 1]]) \o ReplaceBound(s, i + 3, fields)
         ELSE <<s[i]>> \o ReplaceBound(s, i + 1, fields)
RECURSIVE ReplaceBoundIn(_, _)
ReplaceBoundIn(value, fields) ==
    CASE value.t = "str"  -> JStr(ReplaceBound(value.s, 1, fields))
      [] value.t = "obj"  -> JObj([k \in DOMAIN value.o |-> ReplaceBoundIn(value.o[k], fields)])
      [] value.t = "list" -> JList([i \in DOMAIN value.l |-> ReplaceBoundIn(value.l[i], fields)])
      [] OTHER -> value

\* C21: in the URL, in every query parameter and at every depth of the JSON
\* body, _format_recursive replaces every placeholder whose name is bound by
\* the text of the bound value and leaves every other placeholder untouched,
\* also when both kinds stand in the same string.
C21_EveryBoundPlaceholderReplaced ==
    ce_pc = "returned" =>
        /\ resolve_url(ce_endpoint, ce_fields) = ReplaceBoundIn(ce_endpoint.url, ce_fields)
        /\ resolve_params(ce_endpoint, ce_fields) = ReplaceBoundIn(ce_endpoint.params, ce_fields)
        /\ resolve_json(ce_endpoint, ce_fields) = ReplaceBoundIn(ce_endpoint.json, ce_fields)

\* the braces of a string are those of placeholders whose names are bound
RECURSIVE OnlyBoundPlaceholders(_, _, _)
OnlyBoundPlaceholders(s, i, fields) ==
    IF i > Len(s) THEN TRUE
    ELSE IF s[i] = "{"
         THEN /\ i + 2 <= Len(s) /\ s[i + 2] = "}" /\ s[i + 1] \in DOMAIN fields
              /\ OnlyBoundPlaceholders(s, i + 3, fields)
         ELSE s[i] # "}" /\ OnlyBoundPlaceholders(s, i + 1, fields)

\* what the code does: a string is resolved as the rule says when all its
\* braces belong to bound placeholders; a string with an unbound placeholder
\* is returned as it was, bound placeholders included
C21_ReplacedWhenAllBound ==
    ce_pc = "returned" =>
        \A part \in {ce_endpoint.url, ce_endpoint.params, ce_endpoint.json} :
            (\A s \in StringsOf(part) : OnlyBoundPlaceholders(s, 1, ce_fields))
                => format_recursive(part, ce_fields) = ReplaceBoundIn(part, ce_fields)

\* a bound and an unbound placeholder in one string, returned as it was
C21_Witness ==
    /\ ce_pc = "returned"
    /\ ce_endpoint.url = JStr(<<"{", "page", "}", "{", "x", "}">>)
    /\ "page" \in DOMAIN ce_fields
    /\ resolve_url(ce_endpoint, ce_fields) = ce_endpoint.url

\* the segments of the path of the event's URL and of the template's URL
EventSegments == split(url_path(tp_event.url), "/")
TemplateSegments == split(tp_template.url.s, "/")

\* purely numeric, or 16 or more hex-like characters
PurelyNumeric(segment) ==
    \A i \in 1..Len(SegmentChars(segment)) : SegmentChars(segment)[i] \in Digits
LongHexLike(segment) ==
    /\ Len(SegmentChars(segment)) >= 16
    /\ \A i \in 1..Len(SegmentChars(segment)) : SegmentChars(segment)[i] \in HexChars
IsReplaced(segment) ==
    /\ segment # <<>>
    /\ tp_role # "imports_list"
    /\ PurelyNumeric(segment) \/ LongHexLike(segment)

\* C22: _template_from_event replaces a path segment by {import_id} exactly
\* when the segment is not empty, is purely numeric or is 16 or more hex-like
\* characters, and the role is not imports_list; every other segment is kept,
\* and the template URL has no query string.
C22_IdentifierSegmentsReplaced ==
    tp_pc \in {"template", "resolved"} =>
        /\ Len(TemplateSegments) = Len(EventSegments)
        /\ \A i \in 1..Len(EventSegments) :
              TemplateSegments[i] =
                  IF IsReplaced(EventSegments[i]) THEN <<"{", "import_id", "}">>
                  ELSE EventSegments[i]
        /\ \A i \in 1..Len(tp_template.url.s) : tp_template.url.s[i] # "?"

\* a long hex segment replaced next to a hex segment of 15 characters and a
\* segment with a letter that is no hex digit, both kept
C22_Witness ==
    /\ tp_pc = "template"
    /\ tp_role = "import_detail"
    /\ tp_template.url.s =
          <<"/", "api", "/", "{", "import_id", "}", "/", "0123456789abcde", "/", "0123456789abcdeg">>

\* a numeric segment kept in an imports_list template, the query left out
C22_WitnessList ==
    /\ tp_pc = "template"
    /\ tp_role = "imports_list"
    /\ tp_event.url = <<"/", "api", "/", "Medicine", "/", "42", "/", "x", "?", "id", "=", "42">>
    /\ tp_template.url.s = <<"/", "api", "/", "Medicine", "/", "42", "/", "x">>

\* the query of the event's URL, key -> first value
EventQuery == parse_qs(url_query(tp_event.url), TRUE)

\* the four alias sets, the reference keys being those the identifiers are
\* sampled from, in lower case
REFERENCE_ALIASES == {"reference", "referenceno", "referencenumber", "permitno", "permitnumber"}
KindByMembership(key) ==
    LET lowered == lower_key(key) IN
    IF lowered \in PAGE_KEYS THEN <<"{", "page", "}">>
    ELSE IF lowered \in PAGE_SIZE_KEYS THEN <<"{", "page_size", "}">>
    ELSE IF lowered \in ID_KEYS THEN <<"{", "import_id", "}">>
    ELSE IF lowered \in REFERENCE_ALIASES THEN <<"{", "import_reference", "}">>
    ELSE <<>>

\* C23: _key_placeholder gives a key a placeholder kind only when the whole
\* key, in lower case, is a member of one of the four alias sets; a key that
\* is a member of none keeps its sampled value in the query template.
C23_KindByWholeKeyOnly ==
    tp_pc \in {"template", "resolved"} =>
        /\ DOMAIN tp_template.params.o = DOMAIN EventQuery
        /\ \A key \in DOMAIN EventQuery :
              tp_template.params.o[key] =
                  IF KindByMembership(key) # <<>> THEN JStr(KindByMembership(key))
                  ELSE JStr(EventQuery[key])

\* the kind by the three alias sets and, for a key of none of them, by the
\* words the key contains
KindBySetsOrWords(key) ==
    LET lowered == lower_key(key)
        words == key_keywords(lowered)
    IN IF lowered \in PAGE_KEYS THEN <<"{", "page", "}">>
       ELSE IF lowered \in PAGE_SIZE_KEYS THEN <<"{", "page_size", "}">>
       ELSE IF lowered \in ID_KEYS \/ ("import" \in words /\ "id" \in words)
            THEN <<"{", "import_id", "}">>
       ELSE IF "reference" \in words \/ "permit" \in words
            THEN <<"{", "import_reference", "}">>
       ELSE <<>>

\* C23, amended: a key gets the kind of the page, page-size or id alias set
\* its lower-case form is a member of, else import_id when it contains both
\* import and id, else import_reference when it contains reference or
\* permit; any other key keeps its sampled value.
C23_KindBySetOrContainedWord ==
    tp_pc \in {"template", "resolved"} =>
        /\ DOMAIN tp_template.params.o = DOMAIN EventQuery
        /\ \A key \in DOMAIN EventQuery :
              tp_template.params.o[key] =
                  IF KindBySetsOrWords(key) # <<>> THEN JStr(KindBySetsOrWords(key))
                  ELSE JStr(EventQuery[key])

\* the key preference, a member of no set, templated as a reference
C23_Witness ==
    /\ tp_pc = "template"
    /\ "preference" \in DOMAIN tp_template.params.o
    /\ tp_template.params.o["preference"] = JStr(<<"{", "import_reference", "}">>)
    /\ tp_template.params.o["q"] = JStr(<<"x">>)
    /\ tp_template.params.o["pageSize"] = JStr(<<"{", "page_size", "}">>)

\* every key of the value is one the template builder gives no placeholder,
\* so every string under it is a sampled literal
RECURSIVE AllKeysUnmatched(_)
AllKeysUnmatched(value) ==
    CASE value.t = "obj" ->
            \A k \in DOMAIN value.o :
                key_placeholder(k) = NoPlaceholder /\ AllKeysUnmatched(value.o[k])
      [] value.t = "list" -> \A i \in DOMAIN value.l : AllKeysUnmatched(value.l[i])
      [] OTHER -> TRUE
OnlyLiterals ==
    /\ ce_endpoint.url = BaseUrl
    /\ AllKeysUnmatched(ce_endpoint.params)
    /\ AllKeysUnmatched(ce_endpoint.json)

\* C24: a query-parameter or body value the template builder left literal
\* reaches the HTTP execution context with exactly its sampled value, for
\* every binding and whatever the value holds, and never makes the call
\* return as unresolved.
C24_LiteralsReachFetchUnchanged ==
    (ce_pc = "returned" /\ OnlyLiterals) =>
        /\ Len(ce_fetches) = 1
        /\ ce_fetches[1].params = ce_endpoint.params
        /\ ce_fetches[1].json = ce_endpoint.json

\* no string of the value holds a brace
BraceFree(value) == \A s \in StringsOf(value) : \A i \in 1..Len(s) : s[i] \notin {"{", "}"}

\* what the code does: literals without braces reach the fetch as sampled
C24_BraceFreeLiteralsReachFetch ==
    (ce_pc = "returned" /\ OnlyLiterals /\ BraceFree(ce_endpoint.params) /\ BraceFree(ce_endpoint.json)) =>
        /\ Len(ce_fetches) = 1
        /\ ce_fetches[1].params = ce_endpoint.params
        /\ ce_fetches[1].json = ce_endpoint.json

\* the literal {page} under the key q, sent as 2
C24_Witness ==
    /\ ce_pc = "returned"
    /\ ce_endpoint.params = JObj([k \in {"q"} |-> JStr(<<"{", "page", "}">>)])
    /\ Len(ce_fetches) = 1
    /\ ce_fetches[1].params = JObj([k \in {"q"} |-> JStr(<<"2">>)])

\* the template the rule gives for a body: objects keep their keys and lists
\* their lengths, a scalar takes the placeholder of the nearest object key
\* above it when that key has a kind, and stays as it is otherwise
RECURSIVE BodyByRule(_, _)
BodyByRule(value, hint) ==
    CASE value.t = "obj" ->
            JObj([key \in DOMAIN value.o |-> BodyByRule(value.o[key], key)])
      [] value.t = "list" ->
            JList([i \in 1..Len(value.l) |-> BodyByRule(value.l[i], hint)])
      [] OTHER ->
            IF hint # "" /\ KindBySetsOrWords(hint) # <<>>
            THEN JStr(KindBySetsOrWords(hint))
            ELSE value

\* the two values have the same keys and the same list lengths at every depth
RECURSIVE SameShape(_, _)
SameShape(a, b) ==
    CASE a.t = "obj" ->
            /\ b.t = "obj" /\ DOMAIN a.o = DOMAIN b.o
            /\ \A key \in DOMAIN a.o : SameShape(a.o[key], b.o[key])
      [] a.t = "list" ->
            /\ b.t = "list" /\ Len(a.l) = Len(b.l)
            /\ \A i \in 1..Len(a.l) : SameShape(a.l[i], b.l[i])
      [] OTHER -> b.t \notin {"obj", "list"}

\* C25: _template_json_value turns a value under an object key with a
\* placeholder kind into that placeholder, classifies the elements of a list
\* with the key of the list's container, passes every other value through,
\* and gives a template of the same shape as the sampled body.
C25_BodyTemplateByKey ==
    (tp_pc \in {"template", "resolved"} /\ tp_event.request_json # JNull) =>
        /\ tp_template.json = BodyByRule(tp_event.request_json, "")
        /\ SameShape(tp_event.request_json, tp_template.json)

\* a list under id whose number becomes {import_id} and whose object is
\* walked with its own keys, and a null under permitNo replaced
C25_Witness ==
    /\ tp_pc = "template"
    /\ tp_event.request_json.t = "obj"
    /\ DOMAIN tp_event.request_json.o = {"id", "q", "permitNo"}
    /\ tp_template.json.o["id"].l[1] = JStr(<<"{", "import_id", "}">>)
    /\ tp_template.json.o["id"].l[2].o["x"] = JNum(2)
    /\ tp_template.json.o["id"].l[2].o["Start"] = JStr(<<"{", "page", "}">>)
    /\ tp_template.json.o["permitNo"] = JStr(<<"{", "import_reference", "}">>)
    /\ tp_template.json.o["q"] = tp_event.request_json.o["q"]

\* the terms of the score, as the rule words them
ScoredRecords == extract_records(sc_event.response_json)
ScoredQueryKeys == {lower_key(key) : key \in DOMAIN parse_qs(url_query(sc_event.url), TRUE)}
ValuedQueryKeys == {lower_key(key) : key \in DOMAIN parse_qs(url_query(sc_event.url), FALSE)}
FirstRecordWords ==
    IF ScoredRecords = <<>> THEN {}
    ELSE UNION {key_keywords(lower_key(key)) : key \in DOMAIN ScoredRecords[1].o}
TermsWithout(query_keys) ==
      (IF ScoredRecords # <<>> THEN 50 ELSE 0)
    + (IF in_lower("import", sc_event.url) THEN 25 ELSE 0)
    - (IF in_lower("product", sc_event.url) \/ in_lower("supplier", sc_event.url) THEN 25 ELSE 0)
    + (IF sc_event.method \in {"GET", "POST"} THEN 5 ELSE 0)
    + (IF \E key \in query_keys : key \in PAGE_KEYS THEN 10 ELSE 0)
    + (IF \E key \in query_keys : key \in PAGE_SIZE_KEYS THEN 10 ELSE 0)
    + (IF "id" \in FirstRecordWords THEN 8 ELSE 0)
    + (IF "reference" \in FirstRecordWords \/ "permit" \in FirstRecordWords THEN 8 ELSE 0)

\* C26: _score_imports_list is the sum of +50 for a non-empty record list,
\* +25 for import in the URL, -25 for product or supplier in the URL, +5 for
\* GET or POST, +10 for a query key that is a page-number alias, +10 for one
\* that is a page-size alias, +8 for a first-record key containing id and +8
\* for one containing reference or permit.
C26_ScoreIsSumOfTerms ==
    sc_pc = "scored" => sc_score = TermsWithout(ScoredQueryKeys)

\* what the code does: the two query terms count the keys that have a value
C26_ScoreCountsValuedKeys ==
    sc_pc = "scored" => sc_score = TermsWithout(ValuedQueryKeys)

\* a list URL whose page and page-size keys have no value: 88, not 108
C26_Witness ==
    /\ sc_pc = "scored"
    /\ sc_event.method = "GET"
    /\ sc_event.url = UrlList \o <<"?", "page", "=", "&", "pageSize", "=">>
    /\ sc_event.response_json = ListBody
    /\ sc_score = 88

\* the event has the status, the response headers and the body fields of the
\* one response
TakenFrom(event, response) ==
    /\ event.status = response.status
    /\ event.response_headers = redact_headers(response.headers)
    /\ \E text_raises \in BOOLEAN :
          <<event.response_json, event.response_preview>>
              = response_json_or_preview(response, text_raises)

\* C27: once the on_response handlers of a (method, URL) key have all run to
\* their end, the stored event has its status, response headers and body
\* fields from one and the same response, however the handlers interleaved.
C27_EventFromOneResponse ==
    \A key \in DOMAIN events_by_key :
        (/\ events_by_key[key].status # NoStatus
         /\ \A task \in pending_tasks : event_key(task.response.request) # key)
        => \E response \in CapResponses :
              event_key(response.request) = key /\ TakenFrom(events_by_key[key], response)

\* two responses of one key were handled and no handler is left: the status
\* is that of the second response and the body that of the first
C27_Witness ==
    /\ pending_tasks = {}
    /\ event_key(ReqA) \in DOMAIN events_by_key
    /\ events_by_key[event_key(ReqA)].status = RespA2.status
    /\ events_by_key[event_key(ReqA)].response_json = RespA1.text

\* the values of the supplier-like fields of a raw product row: those of the
\* keys that contain supplier, manufacturer or vendor
SupplierFieldValues(row) ==
    {row[i].value : i \in {k \in 1..Len(row) :
        row_key_tokens(lower_row_key(row[k].key)) \cap PRODUCT_SUPPLIER_TOKENS # {}}}
\* the raw row carries no supplier value: every supplier-like field is null or empty
NoSupplierValue(row) == SupplierFieldValues(row) \subseteq {JNull, JStr(<<>>)}

\* C30: for every raw product row whose supplier-like field is null or empty,
\* _normalize_products yields a null supplier_name, and _build_links emits no
\* high-confidence product_row link for that product
C30_NoSupplierValueNoHighLink ==
    \A i \in 1..Len(lk_products) :
        NoSupplierValue(lk_products[i].raw) =>
            /\ lk_products[i].supplier_name = JNull
            /\ lk_pc = "linked" =>
                ~(links[i].confidence = "high" /\ links[i].source = "product_row")
\* what holds of the code: a row whose supplier-like fields are all blank text,
\* or that has none, gets a null supplier_name and no high-confidence link
BlankSupplierText(row) ==
    \A value \in SupplierFieldValues(row) : value.t = "str" /\ strip(value.s) = <<>>
C30_BlankTextGivesNoSupplier ==
    \A i \in 1..Len(lk_products) :
        BlankSupplierText(lk_products[i].raw) =>
            /\ lk_products[i].supplier_name = JNull
            /\ lk_pc = "linked" => links[i].confidence # "high"

\* a detail call of the role was made for the last stored import and gave no rows to
\* store: it was skipped, or it failed, or its body was not JSON
FailedOrSkipped(role, result) ==
    /\ role \in DOMAIN run_catalog.endpoints
    /\ ~(result.ok /\ result.json = "records")
\* the rows now stored for the import reference of the last replace_browser_detail
StoredNow == detail_store[last_replace.import_reference]

\* C28: a failed or skipped import_products or import_suppliers call for an
\* import leaves the rows already stored for that import reference unchanged:
\* the products after a failed products call, the suppliers after a failed
\* suppliers call, and the links after either
C28_FailedCallKeepsStoredRows ==
    last_replace.before # <<>> =>
        /\ FailedOrSkipped("import_products", last_replace.products_result) =>
              StoredNow.products = last_replace.before[1].products
        /\ FailedOrSkipped("import_suppliers", last_replace.suppliers_result) =>
              StoredNow.suppliers = last_replace.before[1].suppliers
        /\ (FailedOrSkipped("import_products", last_replace.products_result)
            \/ FailedOrSkipped("import_suppliers", last_replace.suppliers_result)) =>
              StoredNow.links = last_replace.before[1].links
\* what holds of the code: every processed import has its stored rows replaced by
\* the rows of this run, which are none for a call that failed or was skipped
StoredRowsAreThoseOfThisRun ==
    last_replace # NoReplace =>
        /\ StoredNow.products = normalize_products(rows_of(last_replace.products_result))
        /\ StoredNow.suppliers = normalize_suppliers(rows_of(last_replace.suppliers_result))

\* the run row and the counters agree with how far the run got
RunStateAsEnded ==
    /\ imports_scraped <= imports_seen
    /\ links_seen = products_seen
    /\ run_status = "success" =>
          /\ run_pc = "returned"
          /\ "csv_write" \in run_effects
          /\ run_counts = <<imports_seen, imports_scraped>>
    /\ run_status = "error" =>
          /\ run_pc = "raised"
          /\ run_error # "none"
          /\ run_counts = <<imports_seen, imports_scraped>>
    /\ run_pc = "returned" => run_status = "success"
    /\ (run_pc = "raised" /\ "start_run" \in run_effects) => run_status = "error"
    /\ run_status = "running" => run_counts = <<>>

C29_WitnessSuccess ==
    /\ run_status = "success"
    /\ "csv_write" \in run_effects
    /\ run_counts = <<2, 2>>

====
